---- MODULE Spec2Model ----
(***************************************************************************)
(* A model of SDATtool2: the sequence bytecode codec (sseq.py), the        *)
(* symbol-binding pass of the container model (info.py), the offset table  *)
(* readers (info.py, sdat_io.py, named_struct.py), and single calls of the *)
(* unpacker, the record packer and the integer readers (__main__.py,       *)
(* named_struct.py, sbnk.py, sdat_io.py, sseq.py).                         *)
(*                                                                         *)
(* Byte strings are sequences of 0..255.  Text is a sequence of lines, a   *)
(* line is a sequence of one-character strings.  Python indices are        *)
(* 0-based: the byte at Python index i of s is s[i + 1].                   *)
(***************************************************************************)
EXTENDS Integers, Sequences, FiniteSets, TLC

VARIABLES
    pc,         \* position of the driver: which operation runs next
    buffer,     \* the SSEQ file handed to SseqToTxtConverter
    dis,        \* the fields of the SseqToTxtConverter object
    text,       \* the lines yielded by parse(), seqname filled in
    asm,        \* the fields of the TxtToSseqConverter object
    lineno,     \* number of lines of text that compile() has consumed
    result,     \* the bytes returned by compile()
    text2,      \* the listing of result, disassembled again
    gen         \* the generator parse() returned: where its body is suspended

sseqVars == <<pc, buffer, dis, text, asm, lineno, result, text2, gen>>

VARIABLES
    vl          \* a variable-length integer written by write_varlen and read back

VARIABLES
    info,               \* the InfoData object: the eight lists of info records
    symbols,            \* the SymbolData object: the eight lists of names
    files,              \* the payloads sliced out of the file image, by slot
    file_descriptions,  \* InfoData.file_descriptions
    bind,               \* how often set_symbols ran, and the exception it raised
    outdir              \* what dump_files wrote to the output directory

infoVars == <<info, symbols, files, file_descriptions, bind, outdir>>

VARIABLES
    rd          \* one call of an offset-table reader: its arguments, reads and result

VARIABLES
    call        \* one call of main_unpack, pack, pack_array or read_integer, or an
                \* SdatIO object and the last method called on it

vars == <<sseqVars, vl, infoVars, rd, call>>

\* the variables each subsystem leaves alone
notSseq == <<vl, infoVars, rd, call>>

notVarlen == <<sseqVars, infoVars, rd, call>>

notInfo == <<sseqVars, vl, rd, call>>

notReader == <<sseqVars, vl, infoVars, call>>

notCall == <<sseqVars, vl, infoVars, rd>>

\* a subsystem that takes no part in a run
SseqIdle ==
    /\ pc = "idle"
    /\ buffer = <<>>
    /\ dis = <<>>
    /\ text = <<>>
    /\ asm = <<>>
    /\ lineno = 0
    /\ result = <<>>
    /\ text2 = <<>>
    /\ gen = <<>>

VarlenIdle == vl = [pc |-> "idle"]

InfoIdle ==
    /\ info = <<>>
    /\ symbols = <<>>
    /\ files = <<>>
    /\ file_descriptions = <<>>
    /\ bind = [runs |-> 0, err |-> "idle"]
    /\ outdir = <<>>

ReaderIdle == rd = [pc |-> "idle"]

CallIdle == call = [pc |-> "idle"]

(***************************************************************************)
(* Python built-ins                                                        *)
(***************************************************************************)
Min(a, b) == IF a <= b THEN a ELSE b

Max(a, b) == IF a >= b THEN a ELSE b

RECURSIVE Pow2(_)
Pow2(n) == IF n = 0 THEN 1 ELSE 2 * Pow2(n - 1)

\* s[lo:hi] for 0 <= lo
Slice(s, lo, hi) ==
    IF lo >= Len(s) \/ hi <= lo THEN <<>> ELSE SubSeq(s, lo + 1, Min(hi, Len(s)))

\* s[lo:]
SliceFrom(s, lo) == Slice(s, lo, Len(s))

\* bytes.rstrip(b'\0')
RECURSIVE rstrip0(_)
rstrip0(s) ==
    IF s = <<>> THEN <<>>
    ELSE IF s[Len(s)] = 0 THEN rstrip0(SubSeq(s, 1, Len(s) - 1)) ELSE s

RECURSIVE FromBytesLE(_)
FromBytesLE(bs) == IF bs = <<>> THEN 0 ELSE bs[1] + 256 * FromBytesLE(Tail(bs))

\* int.from_bytes(bs, 'little', signed=signed): the sign bit is the top bit
\* of the bytes actually given, however few
int_from_bytes(bs, signed) ==
    IF signed /\ bs # <<>> /\ bs[Len(bs)] >= 128
    THEN FromBytesLE(bs) - Pow2(8 * Len(bs))
    ELSE FromBytesLE(bs)

RECURSIVE ToBytesLE(_, _)
ToBytesLE(v, n) == IF n = 0 THEN <<>> ELSE <<v % 256>> \o ToBytesLE(v \div 256, n - 1)

\* int.to_bytes(n, 'little') raises OverflowError outside 0 .. 2^(8n) - 1
to_bytes_ok(v, n) == v >= 0 /\ v < Pow2(8 * n)

bytes_zero(n) == [i \in 1..n |-> 0]

RECURSIVE Reverse(_)
Reverse(s) == IF s = <<>> THEN <<>> ELSE Reverse(Tail(s)) \o <<s[1]>>

HexDigits == <<"0","1","2","3","4","5","6","7","8","9","A","B","C","D","E","F">>

RECURSIVE StrNat(_)
StrNat(n) == IF n < 10 THEN <<HexDigits[n + 1]>> ELSE StrNat(n \div 10) \o <<HexDigits[(n % 10) + 1]>>

\* str(n) of an int
Str(n) == IF n < 0 THEN <<"-">> \o StrNat(-n) ELSE StrNat(n)

RECURSIVE HexNat(_)
HexNat(n) == IF n < 16 THEN <<HexDigits[n + 1]>> ELSE HexNat(n \div 16) \o <<HexDigits[(n % 16) + 1]>>

\* zero padding of the format specs 02d, 04X, 02X (arguments are never negative)
ZFill(s, width) ==
    IF Len(s) >= width THEN s ELSE [i \in 1..(width - Len(s)) |-> "0"] \o s

\* sep.join(items)
RECURSIVE Join(_, _)
Join(items, sep) ==
    IF items = <<>> THEN <<>>
    ELSE IF Len(items) = 1 THEN items[1]
    ELSE items[1] \o sep \o Join(Tail(items), sep)

CommaSpace == <<",", " ">>

(***************************************************************************)
(* sseq.py: enums and the resource header                                  *)
(***************************************************************************)
\* SseqCommandId: value -> member name
SseqCommandId ==
    128 :> <<"D","e","l","a","y">> @@
    129 :> <<"I","n","s","t","r","u","m","e","n","t">> @@
    147 :> <<"P","o","i","n","t","e","r">> @@
    148 :> <<"J","u","m","p">> @@
    149 :> <<"C","a","l","l">> @@
    176 :> <<"S","e","t","V","a","r">> @@
    177 :> <<"A","d","d","V","a","r">> @@
    178 :> <<"S","u","b","V","a","r">> @@
    179 :> <<"M","u","l","V","a","r">> @@
    180 :> <<"D","i","v","V","a","r">> @@
    181 :> <<"S","h","i","f","t","V","a","r">> @@
    182 :> <<"S","e","t","V","a","r","R","n","d">> @@
    184 :> <<"V","a","r","E","q">> @@
    185 :> <<"V","a","r","G","e">> @@
    186 :> <<"V","a","r","G","t">> @@
    187 :> <<"V","a","r","L","e">> @@
    188 :> <<"V","a","r","L","t">> @@
    189 :> <<"V","a","r","N","e">> @@
    192 :> <<"P","a","n">> @@
    193 :> <<"V","o","l","u","m","e">> @@
    194 :> <<"M","a","s","t","e","r","V","o","l","u","m","e">> @@
    195 :> <<"T","r","a","n","s","p","o","s","e">> @@
    196 :> <<"P","i","t","c","h","B","l","e","n","d">> @@
    197 :> <<"P","i","t","c","h","B","l","e","n","d","R","a","n","g","e">> @@
    198 :> <<"P","r","i","o","r","i","t","y">> @@
    199 :> <<"P","o","l","y">> @@
    200 :> <<"T","i","e">> @@
    201 :> <<"P","o","r","t","a","m","e","n","t","o","C","o","n","t","r","o","l">> @@
    202 :> <<"M","o","d","D","e","p","t","h">> @@
    203 :> <<"M","o","d","S","p","e","e","d">> @@
    204 :> <<"M","o","d","T","y","p","e">> @@
    205 :> <<"M","o","d","R","a","n","g","e">> @@
    206 :> <<"P","o","r","t","a","m","e","n","t","o","O","n","O","f","f">> @@
    207 :> <<"P","o","r","t","a","m","e","n","t","o","T","i","m","e">> @@
    208 :> <<"A","t","t","a","c","k">> @@
    209 :> <<"D","e","c","a","y">> @@
    210 :> <<"S","u","s","t","a","i","n">> @@
    211 :> <<"R","e","l","e","a","s","e">> @@
    212 :> <<"L","o","o","p","S","t","a","r","t">> @@
    213 :> <<"E","x","p","r","e","s","s","i","o","n">> @@
    214 :> <<"P","r","i","n","t">> @@
    224 :> <<"M","o","d","D","e","l","a","y">> @@
    225 :> <<"T","e","m","p","o">> @@
    227 :> <<"P","i","t","c","h","S","w","e","e","p">> @@
    252 :> <<"L","o","o","p","E","n","d">> @@
    253 :> <<"R","e","t","u","r","n">> @@
    255 :> <<"T","r","a","c","k","E","n","d">>

CmdPointer == 147
CmdJump == 148
CmdCall == 149
CmdPan == 192
CmdReturn == 253
CmdTrackEnd == 255

\* SeqConverter.note_names
note_names ==
    << <<"C","_">>, <<"C","#">>, <<"D","_">>, <<"D","#">>, <<"E","_">>, <<"F","_">>,
       <<"F","#">>, <<"G","_">>, <<"G","#">>, <<"A","_">>, <<"A","#">>, <<"B","_">> >>

\* NNSSndSeqData.size: struct '<4sHHLHHLLL'
HeaderSize == 28

SigSSEQ == <<83, 83, 69, 81>>

KindDATA == FromBytesLE(<<68, 65, 84, 65>>)

\* NNSSndSeqData.pack()
PackHeader(h) ==
    h.signature \o ToBytesLE(h.byteOrder, 2) \o ToBytesLE(h.version, 2)
    \o ToBytesLE(h.fileSize, 4) \o ToBytesLE(h.headerSize, 2) \o ToBytesLE(h.dataBlocks, 2)
    \o ToBytesLE(h.kind, 4) \o ToBytesLE(h.size_, 4) \o ToBytesLE(h.baseOffset, 4)

\* NNSSndSeqData.unpack_from(buffer) with the assertions of __post_init__;
\* struct.error on a buffer shorter than the struct
UnpackHeader(b) ==
    IF Len(b) < HeaderSize THEN [ok |-> FALSE]
    ELSE LET h == [signature  |-> SubSeq(b, 1, 4),
                   byteOrder  |-> FromBytesLE(SubSeq(b, 5, 6)),
                   version    |-> FromBytesLE(SubSeq(b, 7, 8)),
                   fileSize   |-> FromBytesLE(SubSeq(b, 9, 12)),
                   headerSize |-> FromBytesLE(SubSeq(b, 13, 14)),
                   dataBlocks |-> FromBytesLE(SubSeq(b, 15, 16)),
                   kind       |-> FromBytesLE(SubSeq(b, 17, 20)),
                   size_      |-> FromBytesLE(SubSeq(b, 21, 24)),
                   baseOffset |-> FromBytesLE(SubSeq(b, 25, 28))]
         IN [ok |-> h.signature = SigSSEQ /\ h.byteOrder = 65279
                    /\ h.version = 256 /\ h.kind = KindDATA,
             header |-> h]

(***************************************************************************)
(* sseq.py: SseqToTxtConverter, the readers.  Each takes the view and the  *)
(* cursor and returns the value with the advanced cursor.                  *)
(***************************************************************************)
read_integer(view, cursor, nbytes, signed) ==
    [x   |-> int_from_bytes(Slice(view, cursor, cursor + nbytes), signed),
     cur |-> cursor + nbytes]

read_8bit(view, cursor) == read_integer(view, cursor, 1, FALSE)

read_16bit(view, cursor, signed) == read_integer(view, cursor, 2, signed)

read_24bit(view, cursor) == read_integer(view, cursor, 3, FALSE)

\* 0xFFFFFFFF >> 7: once ret exceeds it, (ret << 7) exceeds 0xFFFFFFFF and
\* the assertion at the end of read_varlen fails whatever bytes follow; the
\* loop still reads on to the first byte without the continuation bit.
\* (TLC's integers end at 2^31 - 1: a value in 2^31 .. 2^32 - 1 stops the
\* evaluation with an overflow instead of giving an answer, so ret is kept
\* as it is once it has passed the limit.)
VarlenShiftLimit == 33554431

\* ok is the assertion ret <= 0xFFFFFFFF
read_varlen(view, cursor) ==
    LET RECURSIVE loop(_, _)
        loop(cur, ret) ==
            LET step(b, ret2) ==
                    IF b.x >= 128 THEN loop(b.cur, ret2)
                    ELSE [x |-> ret2, cur |-> b.cur, ok |-> ret <= VarlenShiftLimit]
                shifted(b) ==
                    step(b, IF ret > VarlenShiftLimit THEN ret ELSE ret * 128 + (b.x % 128))
            IN shifted(read_8bit(view, cur))
    IN loop(cursor, 0)

read_value(view, cursor, valueType, default) ==
    LET vt == IF valueType = "NOINIT" THEN default ELSE valueType
        one(r) == [ret |-> <<r.x>>, cur |-> r.cur, ok |-> TRUE]
        vlv(r) == [ret |-> <<r.x>>, cur |-> r.cur, ok |-> r.ok]
        two(lo, hi) == [ret |-> <<lo.x, hi.x>>, cur |-> hi.cur, ok |-> TRUE]
        ran(lo) == two(lo, read_16bit(view, lo.cur, TRUE))
    IN CASE vt = "U8"  -> one(read_8bit(view, cursor))
         [] vt = "U16" -> one(read_16bit(view, cursor, FALSE))
         [] vt = "VLV" -> vlv(read_varlen(view, cursor))
         [] vt = "VAR" -> one(read_8bit(view, cursor))
         [] vt = "RAN" -> ran(read_16bit(view, cursor, TRUE))
         [] OTHER      -> [ret |-> <<>>, cur |-> cursor, ok |-> FALSE]

parse_note(view, cursor, cmd, valueType) ==
    LET pitch == note_names[(cmd % 12) + 1]
        octave == cmd \div 12
        note(velocity, length) ==
            [cmdstr |-> [tag |-> "note", name |-> pitch \o Str(octave)],
             params |-> <<velocity.x>> \o length.ret,
             validx |-> -1,
             cur    |-> length.cur,
             ok     |-> length.ok]
        with_length(velocity) ==
            note(velocity, read_value(view, velocity.cur, valueType, "VLV"))
    IN with_length(read_8bit(view, cursor))

get_command(view, cursor) ==
    LET command(isCond, isRan, isVar, r3) ==
            [cmd         |-> r3.x,
             valueType   |-> IF isVar THEN "VAR" ELSE IF isRan THEN "RAN" ELSE "NOINIT",
             conditional |-> isCond,
             cur         |-> r3.cur]
        after_ran(isCond, isRan, r2) ==
            command(isCond, isRan, r2.x = 161,
                    IF r2.x = 161 THEN read_8bit(view, r2.cur) ELSE r2)
        after_cond(isCond, r1) ==
            after_ran(isCond, r1.x = 160,
                      IF r1.x = 160 THEN read_8bit(view, r1.cur) ELSE r1)
        first(r0) ==
            after_cond(r0.x = 162, IF r0.x = 162 THEN read_8bit(view, r0.cur) ELSE r0)
    IN first(read_8bit(view, cursor))

parse_cmd(view, cursor, cmd, valueType) ==
    LET known == cmd \in DOMAIN SseqCommandId
        command == IF known THEN [tag |-> "cmd", id |-> cmd] ELSE [tag |-> "none"]
        high == (cmd \div 16) * 16
        biased == cmd = CmdPan /\ valueType \in {"NOINIT", "RAN"}
        statement(arg, validx, cur, ok) ==
            [cmdstr |-> command,
             params |-> IF known THEN arg ELSE <<cmd>> \o arg,
             validx |-> validx,
             cur    |-> cur,
             ok     |-> ok]
        value(a) == statement(a.ret, 0, a.cur, a.ok)
        pan(a) == statement(IF biased THEN [i \in 1..Len(a.ret) |-> a.ret[i] - 64]
                            ELSE a.ret,
                            0, a.cur, a.ok)
        opentrack(trackno, address) ==
            statement(<<trackno.x, address.x>>, -1, address.cur, TRUE)
        opentrack_address(trackno) == opentrack(trackno, read_24bit(view, trackno.cur))
        branch(address) == statement(<<address.x>>, -1, address.cur, TRUE)
        variable(varnum, param) ==
            statement(<<varnum.x>> \o param.ret, 1, param.cur, param.ok)
        variable_param(varnum) ==
            variable(varnum, read_value(view, varnum.cur, valueType, "U16"))
    IN CASE high = 128 -> value(read_value(view, cursor, valueType, "VLV"))
         [] high = 144 ->
              IF cmd = CmdPointer THEN opentrack_address(read_8bit(view, cursor))
              ELSE IF cmd = CmdJump \/ cmd = CmdCall THEN branch(read_24bit(view, cursor))
              ELSE statement(<<>>, -1, cursor, TRUE)
         [] high \in {192, 208} -> pan(read_value(view, cursor, valueType, "U8"))
         [] high = 224 -> value(read_value(view, cursor, valueType, "U16"))
         [] high = 176 -> variable_param(read_8bit(view, cursor))
         [] OTHER -> statement(<<>>, -1, cursor, TRUE)

\* one iteration of the loop of parse_track: the statement at the cursor
parse_track(view, cursor) ==
    LET statement(c, p) ==
            [addr |-> cursor, cmdstr |-> p.cmdstr, params |-> p.params,
             valueType |-> c.valueType, validx |-> p.validx,
             conditional |-> c.conditional, cur |-> p.cur, ok |-> p.ok]
        dispatch(c) ==
            statement(c, IF c.cmd < 128 THEN parse_note(view, c.cur, c.cmd, c.valueType)
                         ELSE parse_cmd(view, c.cur, c.cmd, c.valueType))
    IN dispatch(get_command(view, cursor))

(***************************************************************************)
(* sseq.py: SseqToTxtConverter, construction, scan pass and render pass    *)
(***************************************************************************)
\* the replacement field {seqname:s} of the label templates, kept as one
\* element of the line until str.format fills it in
SeqnameField == "{seqname:s}"

\* f'{{seqname:s}}_Tk{trkno:02d}'
TkLabel(trkno) == <<SeqnameField, "_", "T", "k">> \o ZFill(StrNat(trkno), 2)

\* f'{{seqname:s}}_Sub{addr:04X}'
SubLabel(addr) == <<SeqnameField, "_", "S", "u", "b">> \o ZFill(HexNat(addr), 4)

\* sum(1 for i in range(16) if ((trackMask >> i) & 1))
RECURSIVE CountBits(_, _)
CountBits(mask, n) ==
    IF n = 0 THEN 0 ELSE (mask % 2) + CountBits(mask \div 2, n - 1)

\* SseqToTxtConverter() with buffer=None
NoConverter ==
    [header |-> [baseOffset |-> 0], view |-> <<>>, cursor |-> -1,
     labels |-> <<>>, commands |-> <<>>, ntracks |-> 0, trackMask |-> 0]

\* a faulty constructor: the first label is registered at address 0
SseqToTxtConverter_init_at0(buf) ==
    LET converter(header, view, cursor, trackMask) ==
            [ok  |-> TRUE,
             obj |-> [header    |-> header,
                      view      |-> view,
                      cursor    |-> cursor,
                      labels    |-> 0 :> TkLabel(0),
                      commands  |-> <<>>,
                      trackMask |-> trackMask,
                      ntracks   |-> CountBits(trackMask, 16)]]
        tracks_used(header, view, mask) ==
            converter(header, view, mask.cur, mask.x)
        first_command(header, view, cmd) ==
            IF cmd.x = 254
            THEN tracks_used(header, view, read_16bit(view, cmd.cur, FALSE))
            ELSE converter(header, view, cmd.cur - 1, 0)
        body(header, view) ==
            first_command(header, view, read_8bit(view, header.baseOffset))
        unpacked(u) ==
            IF ~u.ok THEN [ok |-> FALSE, obj |-> NoConverter]
            ELSE body(u.header, rstrip0(buf))
    IN unpacked(UnpackHeader(buf))

\* SseqToTxtConverter.__init__(buffer)
SseqToTxtConverter_init(buf) ==
    LET converter(header, view, cursor, trackMask) ==
            [ok  |-> TRUE,
             obj |-> [header    |-> header,
                      view      |-> view,
                      cursor    |-> cursor,
                      labels    |-> (cursor - header.baseOffset) :> TkLabel(0),
                      commands  |-> <<>>,
                      trackMask |-> trackMask,
                      ntracks   |-> CountBits(trackMask, 16)]]
        tracks_used(header, view, mask) ==
            converter(header, view, mask.cur, mask.x)
        first_command(header, view, cmd) ==
            IF cmd.x = 254
            THEN tracks_used(header, view, read_16bit(view, cmd.cur, FALSE))
            ELSE converter(header, view, cmd.cur - 1, 0)
        body(header, view) ==
            first_command(header, view, read_8bit(view, header.baseOffset))
        unpacked(u) ==
            IF ~u.ok THEN [ok |-> FALSE, obj |-> NoConverter]
            ELSE body(u.header, rstrip0(buf))
    IN unpacked(UnpackHeader(buf))

\* a faulty loop body: the statement is stored and the cursor stays
scan_commands_stuck(d, st) ==
    [d EXCEPT !.commands = Append(@, [addr |-> st.addr, cmdstr |-> st.cmdstr,
                                      params |-> st.params, valueType |-> st.valueType,
                                      validx |-> st.validx, conditional |-> st.conditional])]

\* the body of the loop of scan_commands for the statement st of parse_track
scan_commands(d, st) ==
    LET entry == [addr |-> st.addr, cmdstr |-> st.cmdstr, params |-> st.params,
                  valueType |-> st.valueType, validx |-> st.validx,
                  conditional |-> st.conditional]
        isPointer == st.cmdstr = [tag |-> "cmd", id |-> CmdPointer]
        isBranch == st.cmdstr \in {[tag |-> "cmd", id |-> CmdJump], [tag |-> "cmd", id |-> CmdCall]}
    IN [d EXCEPT !.cursor = st.cur,
                 !.commands = Append(@, entry),
                 !.labels = IF isPointer
                            THEN (st.params[2] :> TkLabel(st.params[1])) @@ @
                            ELSE IF isBranch
                            THEN (st.params[1] :> SubLabel(st.params[1])) @@ @
                            ELSE @]

CondPrefix(conditional) == IF conditional THEN <<"I","F","T","R","U","E"," ">> ELSE <<>>

StrAll(params) == [i \in 1..Len(params) |-> Str(params[i])]

\* the label line iter_format_commands yields before the statement of the
\* entry c of self.commands when self.labels has the address of c, as a
\* sequence of no or one line
label_line(d, c) ==
    LET addr == c.addr - d.header.baseOffset
    IN IF addr \in DOMAIN d.labels
       THEN << d.labels[addr] \o <<":"," ","@"," ","0","x">> \o ZFill(HexNat(addr), 4) >>
       ELSE <<>>

\* the lines iter_format_commands yields for the entry c after the label
\* line: the statement, and an empty line after Return and TrackEnd
command_lines(d, c) ==
    LET cond_s == CondPrefix(c.conditional)
        params == c.params
    IN CASE c.cmdstr.tag = "cmd" ->
              LET name == SseqCommandId[c.cmdstr.id]
                  p0 == StrAll(params)
                  p1 == IF c.cmdstr.id = CmdPointer
                        THEN SubSeq(p0, 1, 1)
                             \o << d.labels[params[2]] \o <<" ","@"," ","0","x">>
                                   \o ZFill(HexNat(params[2]), 4) >>
                             \o SubSeq(p0, 3, Len(p0))
                        ELSE IF c.cmdstr.id \in {CmdJump, CmdCall}
                        THEN << d.labels[params[1]] >> \o Tail(p0)
                        ELSE p0
                  valueType_s == IF c.valueType = "RAN" THEN <<"R","A","N">> ELSE <<"V","A","R">>
                  p2 == IF c.validx # -1 /\ c.valueType # "NOINIT"
                        THEN SubSeq(p1, 1, c.validx)
                             \o << valueType_s \o <<"(">> \o Join(SliceFrom(p1, c.validx), CommaSpace) \o <<")">> >>
                        ELSE p1
                  line == IF params # <<>>
                          THEN <<"\t">> \o cond_s \o name \o <<" ">> \o Join(p2, CommaSpace)
                          ELSE <<"\t">> \o cond_s \o name
              IN <<line>> \o (IF c.cmdstr.id \in {CmdReturn, CmdTrackEnd} THEN << <<>> >> ELSE <<>>)
         [] c.cmdstr.tag = "note" ->
              << <<"\t">> \o cond_s \o c.cmdstr.name \o CommaSpace \o Str(params[1])
                 \o CommaSpace \o Str(params[2]) >>
         [] OTHER ->
              LET cmdstr == <<"S","e","q","U","n","k","C","m","d","_","x">> \o ZFill(HexNat(params[1]), 2)
                  rest == Tail(params)
              IN IF rest # <<>>
                 THEN << <<"\t">> \o cond_s \o cmdstr \o <<" ">> \o Join(StrAll(rest), CommaSpace) >>
                 ELSE << <<"\t">> \o cond_s \o cmdstr >>

\* the lines iter_format_commands yields for one entry of self.commands
format_command(d, c) == label_line(d, c) \o command_lines(d, c)

\* next() on the generator g that parse() returned, d being the converter
\* as it is when next() is called.  The body of iter_format_commands runs
\* from where it is suspended to its next yield: before the first next()
\* nothing has run, and self.commands.items() is evaluated then; g.i is
\* the entry the loop is at; self.header.baseOffset and self.labels are
\* read when the loop gets to an entry, and self.labels again when the
\* statement of a Pointer, a Jump or a Call is built, where an address
\* without a label raises KeyError.  The generator is closed when its
\* body returns (StopIteration) or raises.
gen_next(d, g) ==
    LET yield(ln, pos, items, k) ==
            [out |-> "yield", line |-> ln,
             gen |-> [g EXCEPT !.at = pos, !.commands = items, !.i = k]]
        closed(exc) ==
            [out |-> exc, line |-> <<>>,
             gen |-> [g EXCEPT !.at = "closed", !.commands = <<>>, !.i = 0]]
        KeyError(e) ==
            /\ e.cmdstr.tag = "cmd"
            /\ \/ e.cmdstr.id = CmdPointer /\ e.params[2] \notin DOMAIN d.labels
               \/ e.cmdstr.id \in {CmdJump, CmdCall} /\ e.params[1] \notin DOMAIN d.labels
        statement(items, k) ==
            IF KeyError(items[k]) THEN closed("KeyError")
            ELSE yield(command_lines(d, items[k])[1], "statement", items, k)
        entry(items, k) ==
            IF k > Len(items) THEN closed("StopIteration")
            ELSE IF label_line(d, items[k]) # <<>>
            THEN yield(label_line(d, items[k])[1], "label", items, k)
            ELSE statement(items, k)
        ends_track(e) == e.cmdstr.tag = "cmd" /\ e.cmdstr.id \in {CmdReturn, CmdTrackEnd}
    IN CASE g.at = "created" -> entry(d.commands, 1)
         [] g.at = "label" -> statement(g.commands, g.i)
         [] g.at = "statement" ->
               IF ends_track(g.commands[g.i]) THEN yield(<<>>, "blank", g.commands, g.i)
               ELSE entry(g.commands, g.i + 1)
         [] g.at = "blank" -> entry(g.commands, g.i + 1)

\* list(iter_format_commands()): the generator taken to its end at once
iter_format_commands(d) ==
    LET RECURSIVE from(_)
        from(k) == IF k > Len(d.commands) THEN <<>>
                   ELSE format_command(d, d.commands[k]) \o from(k + 1)
    IN from(1)

\* line.format(seqname=seqname)
RECURSIVE format(_, _)
format(line, seqname) ==
    IF line = <<>> THEN <<>>
    ELSE (IF line[1] = SeqnameField THEN seqname ELSE <<line[1]>>) \o format(Tail(line), seqname)

\* SEQNAME = 'SEQ_GS_P_EYE_ROCKET', the sequence name the test renders the
\* listing with
SEQNAME ==
    <<"S", "E", "Q", "_", "G", "S", "_", "P", "_",
      "E", "Y", "E", "_", "R", "O", "C", "K", "E", "T">>

(***************************************************************************)
(* Python str and re, as far as the patterns of TxtToSseqConverter use     *)
(* them.  Positions are 1-based indices into the line.                     *)
(***************************************************************************)
DigitChars == {"0","1","2","3","4","5","6","7","8","9"}

UpperChars == {"A","B","C","D","E","F","G","H","I","J","K","L","M",
               "N","O","P","Q","R","S","T","U","V","W","X","Y","Z"}

LowerChars == {"a","b","c","d","e","f","g","h","i","j","k","l","m",
               "n","o","p","q","r","s","t","u","v","w","x","y","z"}

\* \w
WordChars == DigitChars \cup UpperChars \cup LowerChars \cup {"_"}

\* the characters str.rstrip() strips: the whitespace of str, of which ASCII
\* has tab, line feed, vertical tab (0x0B), form feed, carriage return, the
\* separators 0x1C .. 0x1F and the space (a text of the model is ASCII)
SpaceChars == {" ", "\t", "\n", "\r", "\f", "", "", "", "", ""}

DigitValue(c) == CHOOSE v \in 0..15 : HexDigits[v + 1] = c

\* s has the literal lit at position i
HasAt(s, i, lit) ==
    i + Len(lit) - 1 <= Len(s) /\ SubSeq(s, i, i + Len(lit) - 1) = lit

\* the length of the longest run of characters of class at position i
RECURSIVE RunLen(_, _, _)
RunLen(s, i, class) ==
    IF i <= Len(s) /\ s[i] \in class THEN 1 + RunLen(s, i + 1, class) ELSE 0

\* the length of the longest run of characters outside class at position i
RECURSIVE RunLenNot(_, _, _)
RunLenNot(s, i, class) ==
    IF i <= Len(s) /\ s[i] \notin class THEN 1 + RunLenNot(s, i + 1, class) ELSE 0

\* the position of the first character c at or after position i, 0 if none
RECURSIVE Find(_, _, _)
Find(s, i, c) ==
    IF i > Len(s) THEN 0 ELSE IF s[i] = c THEN i ELSE Find(s, i + 1, c)

\* line.split('@')[0]
SplitComment(line) ==
    LET at == Find(line, 1, "@") IN IF at = 0 THEN line ELSE SubSeq(line, 1, at - 1)

RECURSIVE rstrip(_)
rstrip(s) ==
    IF s = <<>> THEN <<>>
    ELSE IF s[Len(s)] \in SpaceChars THEN rstrip(SubSeq(s, 1, Len(s) - 1)) ELSE s

\* the characters int() skips around the digits: tab, line feed, vertical
\* tab, form feed, carriage return and the space, not the separators
\* 0x1C .. 0x1F
IntSpaceChars == {" ", "\t", "\n", "\r", "\f", ""}

\* the string int() reads the sign and the digits from
RECURSIVE int_strip(_)
int_strip(s) ==
    IF s = <<>> THEN <<>>
    ELSE IF s[1] \in IntSpaceChars THEN int_strip(Tail(s))
    ELSE IF s[Len(s)] \in IntSpaceChars THEN int_strip(SubSeq(s, 1, Len(s) - 1))
    ELSE s

\* s.split(', ')
RECURSIVE SplitCommaSpace(_, _, _)
SplitCommaSpace(s, i, start) ==
    IF i > Len(s) THEN << SubSeq(s, start, Len(s)) >>
    ELSE IF HasAt(s, i, CommaSpace)
    THEN << SubSeq(s, start, i - 1) >> \o SplitCommaSpace(s, i + 2, i + 2)
    ELSE SplitCommaSpace(s, i + 1, start)

RECURSIVE DigitsValue(_, _)
DigitsValue(s, acc) ==
    IF s = <<>> THEN acc
    ELSE IF s[1] = "_" THEN DigitsValue(Tail(s), acc)
    ELSE DigitsValue(Tail(s), 10 * acc + DigitValue(s[1]))

\* int(raw): surrounding whitespace of int(), an optional sign, decimal digits with
\* single underscores between them; ValueError otherwise. The listings are
\* ASCII text (the digits are 0..9) and the arguments have at most nine
\* digits, so that the value is below 2^31.
int(raw) ==
    LET t == int_strip(raw)
        signed == t # <<>> /\ t[1] \in {"-", "+"}
        body == IF signed THEN Tail(t) ELSE t
        wellFormed == /\ body # <<>>
                      /\ \A i \in 1..Len(body) : body[i] \in DigitChars \cup {"_"}
                      /\ body[1] # "_" /\ body[Len(body)] # "_"
                      /\ \A i \in 1..(Len(body) - 1) : ~(body[i] = "_" /\ body[i + 1] = "_")
    IN IF ~wellFormed THEN [ok |-> FALSE, x |-> 0]
       ELSE [ok |-> TRUE,
             x  |-> IF signed /\ t[1] = "-" THEN 0 - DigitsValue(body, 0)
                    ELSE DigitsValue(body, 0)]

NoMatch == [ok |-> FALSE]

\* LABEL_PAT.match(line): (?P<symbol>\w+):
LABEL_PAT(line) ==
    LET n == RunLen(line, 1, WordChars)
    IN IF n >= 1 /\ HasAt(line, n + 1, <<":">>)
       THEN [ok |-> TRUE, symbol |-> SubSeq(line, 1, n)]
       ELSE NoMatch

IfTrue == <<"I","F","T","R","U","E"," ">>

\* the part of NOTE_PAT after the optional group, tried at position p; the
\* dot of (?P<length>.+) matches every character but the line feed
NOTE_PAT_at(line, p, conditional) ==
    LET nv == RunLen(line, p + 5, DigitChars)
        nl == RunLenNot(line, p + 5 + nv + 2, {"\n"})
    IN IF /\ p + 2 <= Len(line)
          /\ line[p] \in {"A","B","C","D","E","F","G"}
          /\ line[p + 1] \in {"_", "#"}
          /\ line[p + 2] \in DigitChars
          /\ HasAt(line, p + 3, CommaSpace)
          /\ nv >= 1
          /\ HasAt(line, p + 5 + nv, CommaSpace)
          /\ nl >= 1
       THEN [ok |-> TRUE, conditional |-> conditional,
             note |-> SubSeq(line, p, p + 1),
             octave |-> <<line[p + 2]>>,
             velocity |-> SubSeq(line, p + 5, p + 4 + nv),
             length |-> SubSeq(line, p + 5 + nv + 2, p + 5 + nv + 1 + nl)]
       ELSE NoMatch

\* NOTE_PAT.match(line):
\* \t(?P<conditional>IFTRUE )?(?P<note>[A-G][_#])(?P<octave>\d), (?P<velocity>\d+), (?P<length>.+)
NOTE_PAT(line) ==
    IF ~HasAt(line, 1, <<"\t">>) THEN NoMatch
    ELSE IF HasAt(line, 2, IfTrue) /\ NOTE_PAT_at(line, 9, TRUE).ok
    THEN NOTE_PAT_at(line, 9, TRUE)
    ELSE NOTE_PAT_at(line, 2, FALSE)

\* CMD_PAT.match(line): \t(?P<conditional>IFTRUE )?(?P<command>\w+)(?P<args>.*)
\* The dot matches every character but the line feed.
CMD_PAT(line) ==
    IF ~HasAt(line, 1, <<"\t">>) THEN NoMatch
    ELSE LET withCond == HasAt(line, 2, IfTrue) /\ RunLen(line, 9, WordChars) >= 1
             p == IF withCond THEN 9 ELSE 2
             n == RunLen(line, p, WordChars)
         IN IF n = 0 THEN NoMatch
            ELSE [ok |-> TRUE, conditional |-> withCond,
                  command |-> SubSeq(line, p, p + n - 1),
                  args |-> SubSeq(line, p + n,
                                  p + n - 1 + RunLenNot(line, p + n, {"\n"}))]

\* the end of a match of \w+\(.+?\) at position i, 0 if there is none: the
\* first closing bracket after at least one character, with no line feed
\* between the brackets
ArgLenEnd(s, i) ==
    LET n == RunLen(s, i, WordChars)
        close == Find(s, i + n + 2, ")")
    IN IF /\ n >= 1
          /\ HasAt(s, i + n, <<"(">>)
          /\ close # 0
          /\ i + n + RunLenNot(s, i + n + 1, {"\n"}) >= close
       THEN close
       ELSE 0

\* ARG_LEN.match(s): (?P<kind>\w+)\((?P<args>.+?)\)
ARG_LEN(s) ==
    LET n == RunLen(s, 1, WordChars)
        close == ArgLenEnd(s, 1)
    IN IF close = 0 THEN NoMatch
       ELSE [ok |-> TRUE, kind |-> SubSeq(s, 1, n), args |-> SubSeq(s, n + 2, close - 1)]

\* CMD_ARGS.findall(s) from position i: \w+\(.+?\)|[^, ]+
RECURSIVE CMD_ARGS(_, _)
CMD_ARGS(s, i) ==
    IF i > Len(s) THEN <<>>
    ELSE LET close == ArgLenEnd(s, i)
             m == RunLenNot(s, i, {",", " "})
         IN IF close # 0 THEN << SubSeq(s, i, close) >> \o CMD_ARGS(s, close + 1)
            ELSE IF m >= 1 THEN << SubSeq(s, i, i + m - 1) >> \o CMD_ARGS(s, i + m)
            ELSE CMD_ARGS(s, i + 1)

UnkPrefix == <<"S","e","q","U","n","k","C","m","d","_","x">>

UpperHexChars == {"0","1","2","3","4","5","6","7","8","9","A","B","C","D","E","F"}

\* UNK_COMMAND.match(s): SeqUnkCmd_x(?P<index>[0-9A-F]{2}), with int(index, 16)
UNK_COMMAND(s) ==
    IF /\ HasAt(s, 1, UnkPrefix)
       /\ Len(s) >= Len(UnkPrefix) + 2
       /\ s[Len(UnkPrefix) + 1] \in UpperHexChars
       /\ s[Len(UnkPrefix) + 2] \in UpperHexChars
    THEN [ok |-> TRUE,
          index |-> 16 * DigitValue(s[Len(UnkPrefix) + 1]) + DigitValue(s[Len(UnkPrefix) + 2])]
    ELSE NoMatch

(***************************************************************************)
(* sseq.py: TxtToSseqConverter.  The object is the record                  *)
(*   labels      symbol -> offset in compiled                              *)
(*   relocs      the dict offset -> label, as its items in insertion order *)
(*   compiled    the bytearray                                             *)
(*   tracks_mask the set of the bits set in the Python int, {0} for 1      *)
(*   err         "" while no exception was raised, else the exception      *)
(* An operation applied to an object with err # "" leaves it unchanged,    *)
(* which is how the exception propagates out of compile.                   *)
(***************************************************************************)
\* TxtToSseqConverter.__init__
TxtToSseqConverter_init ==
    [labels |-> <<>>, relocs |-> <<>>, compiled |-> <<>>, tracks_mask |-> {0}, err |-> ""]

Raise(a, exc) == IF a.err # "" THEN a ELSE [a EXCEPT !.err = exc]

\* buf[offset:offset + nbytes] = data
SliceAssign(buf, offset, nbytes, data) ==
    Slice(buf, 0, offset) \o data \o SliceFrom(buf, Min(offset + nbytes, Len(buf)))

\* offset = -1 stands for offset=None
write_integer(a, value, nbytes, offset) ==
    LET v == IF value < 0 THEN value + Pow2(8 * nbytes) ELSE value
    IN IF a.err # "" THEN a
       ELSE IF ~to_bytes_ok(v, nbytes) THEN Raise(a, "OverflowError")
       ELSE IF offset = -1
       THEN [a EXCEPT !.compiled = @ \o ToBytesLE(v, nbytes)]
       ELSE [a EXCEPT !.compiled = SliceAssign(@, offset, nbytes, ToBytesLE(v, nbytes))]

write_8bits(a, value, offset) == write_integer(a, value, 1, offset)

write_16bits(a, value, offset) == write_integer(a, value, 2, offset)

write_24bits(a, value, offset) == write_integer(a, value, 3, offset)

\* write_varlen with offset=None.  A negative value never leaves the loop
\* (value >>= 7 stays -1); value 0 leaves buffer empty and buffer[0] raises.
write_varlen(a, value) ==
    IF a.err # "" THEN a
    ELSE IF value < 0 THEN Raise(a, "Hang")
    ELSE LET \* the loop: the groups of 7 bits, least significant first, each
             \* with the high bit set
             RECURSIVE varlen_groups(_)
             varlen_groups(v) ==
                 IF v = 0 THEN <<>> ELSE <<(v % 128) + 128>> \o varlen_groups(v \div 128)
             groups == varlen_groups(value)
         IN IF groups = <<>> THEN Raise(a, "IndexError")
            ELSE [a EXCEPT !.compiled = @ \o Reverse([groups EXCEPT ![1] = @ % 128])]

handle_prefix(a, conditional, var_arg) ==
    LET a1 == IF conditional THEN write_8bits(a, 162, -1) ELSE a
    IN IF ~var_arg.ok THEN a1
       ELSE IF var_arg.kind = <<"R","A","N">> THEN write_8bits(a1, 160, -1)
       ELSE IF var_arg.kind = <<"V","A","R">> THEN write_8bits(a1, 161, -1)
       ELSE Raise(a1, "ValueError")

\* for value in var_arg['args'].split(', '): self.write_16bits(int(value))
RECURSIVE write_ran_values(_, _)
write_ran_values(a, values) ==
    IF values = <<>> THEN a
    ELSE LET v == int(values[1])
         IN IF ~v.ok THEN Raise(a, "ValueError")
            ELSE write_ran_values(write_16bits(a, v.x, -1), Tail(values))

handle_var_arg(a, raw, var_arg, default) ==
    IF ~var_arg.ok
    THEN LET v == int(raw)
         IN IF default \notin {"VLV", "U8", "U16"} THEN Raise(a, "ValueError")
            ELSE IF ~v.ok THEN Raise(a, "ValueError")
            ELSE IF default = "VLV" THEN write_varlen(a, v.x)
            ELSE IF default = "U8" THEN write_8bits(a, v.x, -1)
            ELSE write_16bits(a, v.x, -1)
    ELSE IF var_arg.kind = <<"R","A","N">>
    THEN write_ran_values(a, SplitCommaSpace(var_arg.args, 1, 1))
    ELSE LET v == int(var_arg.args)
         IN IF ~v.ok THEN Raise(a, "ValueError") ELSE write_8bits(a, v.x, -1)

add_reloc(a, label) ==
    IF a.err # "" THEN a
    ELSE write_24bits([a EXCEPT !.relocs = Append(@, [addr |-> Len(a.compiled), label |-> label])],
                      0, -1)

\* a faulty relocation pass: a relocation whose label is not declared is
\* skipped, its three bytes stay zero
dispatch_relocs_lenient(a) ==
    LET RECURSIVE from(_, _)
        from(b, i) ==
            IF b.err # "" \/ i > Len(b.relocs) THEN b
            ELSE IF b.relocs[i].label \notin DOMAIN b.labels THEN from(b, i + 1)
            ELSE from(write_24bits(b, b.labels[b.relocs[i].label], b.relocs[i].addr), i + 1)
    IN from(a, 1)

\* dispatch_relocs: the loop over self.relocs, from the relocation i on
dispatch_relocs(a) ==
    LET RECURSIVE from(_, _)
        from(b, i) ==
            IF b.err # "" \/ i > Len(b.relocs) THEN b
            ELSE IF b.relocs[i].label \notin DOMAIN b.labels THEN Raise(b, "KeyError")
            ELSE from(write_24bits(b, b.labels[b.relocs[i].label], b.relocs[i].addr), i + 1)
    IN from(a, 1)

write_note(a, match) ==
    LET \* note_names.index(note), -1 for the ValueError
        idx == IF \E i \in 1..12 : note_names[i] = match.note
               THEN (CHOOSE i \in 1..12 : note_names[i] = match.note) - 1
               ELSE -1
        pitch == idx + 12 * int(match.octave).x
        velocity == int(match.velocity).x
        var_arg == ARG_LEN(match.length)
        a1 == handle_prefix(a, match.conditional, var_arg)
        a2 == write_8bits(a1, pitch, -1)
        a3 == write_8bits(a2, velocity, -1)
    IN IF idx = -1 THEN Raise(a, "ValueError")
       ELSE handle_var_arg(a3, match.length, var_arg, "VLV")

\* the int whose set bits are mask, for a mask below 2^16
RECURSIVE MaskValue(_)
MaskValue(mask) ==
    IF mask = {} THEN 0
    ELSE LET b == CHOOSE x \in mask : TRUE IN Pow2(b) + MaskValue(mask \ {b})

\* a faulty insertion: the three bytes are put in front, the recorded
\* labels and relocations stay where they were
insert_tracks_header_unshifted(a) ==
    [a EXCEPT !.compiled = bytes_zero(3) \o @]

\* the retroactive insertion of write_command: three bytes at the front of
\* the buffer, every label and reloc shifted by 3
insert_tracks_header(a) ==
    [a EXCEPT !.compiled = bytes_zero(3) \o @,
              !.labels = [k \in DOMAIN @ |-> @[k] + 3],
              !.relocs = [i \in 1..Len(@) |-> [@[i] EXCEPT !.addr = @ + 3]]]

\* a faulty Pan adjustment: the argument is left as it was parsed
pan_adjust_missing(a, var_arg) == a

\* the Pan adjustment at the end of the u8 branch of write_command
pan_adjust(a, var_arg) ==
    LET n == Len(a.compiled)
    IN IF a.err # "" THEN a
       ELSE IF ~var_arg.ok
       THEN [a EXCEPT !.compiled[n] = (@ + 64) % 256]
       ELSE IF var_arg.kind = <<"R","A","N">>
       THEN LET low == int_from_bytes(Slice(a.compiled, n - 4, n - 2), TRUE) + 64
                high == int_from_bytes(Slice(a.compiled, n - 2, n), TRUE) + 64
            IN write_16bits(write_16bits(a, low, n - 4), high, n - 2)
       ELSE a

\* getattr(SseqCommandId, name).value, -1 for the AttributeError
CommandValue(name) ==
    IF \E id \in DOMAIN SseqCommandId : SseqCommandId[id] = name
    THEN CHOOSE id \in DOMAIN SseqCommandId : SseqCommandId[id] = name
    ELSE -1

write_command(a, match) ==
    LET value == CommandValue(match.command)
        unk == UNK_COMMAND(match.command)
        known == value # -1
        cmd_idx == IF known THEN value ELSE unk.index
        args == CMD_ARGS(match.args, 1)
        var_arg == IF args # <<>> THEN ARG_LEN(args[Len(args)]) ELSE NoMatch
        a1 == write_8bits(handle_prefix(a, match.conditional, var_arg), cmd_idx, -1)
        high == (cmd_idx \div 16) * 16
    IN IF ~known /\ ~unk.ok THEN Raise(a, "AttributeError")
       ELSE IF a1.err # "" THEN a1
       ELSE CASE high = 128 ->
                   IF args = <<>> THEN Raise(a1, "IndexError")
                   ELSE handle_var_arg(a1, args[1], var_arg, "VLV")
              [] high = 144 ->
                   IF known /\ value = CmdPointer
                   THEN IF Len(args) # 2 THEN Raise(a1, "ValueError")
                        ELSE LET trackno == int(args[1])
                                 a2 == IF a1.tracks_mask = {0} THEN insert_tracks_header(a1) ELSE a1
                             IN IF ~trackno.ok THEN Raise(a1, "ValueError")
                                ELSE IF trackno.x < 0 THEN Raise(a2, "ValueError")
                                ELSE add_reloc(
                                       write_8bits([a2 EXCEPT !.tracks_mask = @ \cup {trackno.x}],
                                                   trackno.x, -1),
                                       args[2])
                   ELSE IF known /\ value \in {CmdJump, CmdCall}
                   THEN IF Len(args) # 1 THEN Raise(a1, "ValueError")
                        ELSE add_reloc(a1, args[1])
                   ELSE a1
              [] high \in {192, 208} ->
                   IF Len(args) # 1 THEN Raise(a1, "ValueError")
                   ELSE LET a2 == handle_var_arg(a1, args[1], var_arg, "U8")
                        IN IF known /\ value = CmdPan THEN pan_adjust(a2, var_arg) ELSE a2
              [] high = 224 ->
                   IF Len(args) # 1 THEN Raise(a1, "ValueError")
                   ELSE handle_var_arg(a1, args[1], var_arg, "U16")
              [] high = 176 ->
                   IF Len(args) # 2 THEN Raise(a1, "ValueError")
                   ELSE LET varnum == int(args[1])
                        IN IF ~varnum.ok THEN Raise(a1, "ValueError")
                           ELSE handle_var_arg(write_8bits(a1, varnum.x, -1), args[2], var_arg, "U16")
              [] OTHER -> a1

\* the body of the main loop of compile for one line of the file
compile_line(a, rawline) ==
    LET line == rstrip(SplitComment(rawline))
        label == LABEL_PAT(line)
        note == NOTE_PAT(line)
        command == CMD_PAT(line)
    IN IF a.err # "" THEN a
       ELSE IF label.ok
       THEN [a EXCEPT !.labels = (label.symbol :> Len(a.compiled)) @@ @]
       ELSE IF note.ok THEN write_note(a, note)
       ELSE IF command.ok THEN write_command(a, command)
       ELSE a

\* compile after the main loop: relocations, tracks-used header, padding
compile_finish(a) ==
    LET a1 == dispatch_relocs(a)
        a2 == IF a1.tracks_mask # {0}
              THEN IF \E b \in a1.tracks_mask : b >= 16
                   THEN Raise(write_8bits(a1, 254, 0), "OverflowError")
                   ELSE write_16bits(write_8bits(a1, 254, 0), MaskValue(a1.tracks_mask), 1)
              ELSE a1
        n == Len(a2.compiled)
    IN IF a2.err # "" THEN a2
       ELSE [a2 EXCEPT !.compiled = IF n % 4 # 0 THEN @ \o bytes_zero(4 - (n % 4)) ELSE @]

\* a faulty header: fileSize counts the stream without the header
compile_header_stream_only(stream) ==
    [signature |-> SigSSEQ, byteOrder |-> 65279, version |-> 256,
     fileSize |-> Len(stream), headerSize |-> 16, dataBlocks |-> 1,
     kind |-> KindDATA, size_ |-> 12 + Len(stream), baseOffset |-> HeaderSize]

\* the header compile builds around the padded stream
compile_header(stream) ==
    [signature |-> SigSSEQ, byteOrder |-> 65279, version |-> 256,
     fileSize |-> HeaderSize + Len(stream), headerSize |-> 16, dataBlocks |-> 1,
     kind |-> KindDATA, size_ |-> 12 + Len(stream), baseOffset |-> HeaderSize]

\* the value compile returns
compile_result(a) == PackHeader(compile_header(a.compiled)) \o a.compiled

(***************************************************************************)
(* Whole runs of the two converters, as the test drives them               *)
(***************************************************************************)
\* scan_commands: the loop over parse_track until the cursor passes the view
RECURSIVE scan_all(_)
scan_all(d) ==
    IF d.cursor >= Len(d.view) THEN [ok |-> TRUE, obj |-> d]
    ELSE LET step(st) == IF ~st.ok THEN [ok |-> FALSE, obj |-> [d EXCEPT !.cursor = st.cur]]
                         ELSE scan_all(scan_commands(d, st))
         IN step(parse_track(d.view, d.cursor))

\* [x.format(seqname=SEQNAME) for x in SseqToTxtConverter(buf).parse()]
parse(buf) ==
    LET formatted(lines) == [i \in 1..Len(lines) |-> format(lines[i], SEQNAME)]
        rendered(s) ==
            IF ~s.ok THEN [ok |-> FALSE, lines |-> <<>>]
            ELSE [ok |-> TRUE, lines |-> formatted(iter_format_commands(s.obj))]
        scanned(c) ==
            IF ~c.ok THEN [ok |-> FALSE, lines |-> <<>>] ELSE rendered(scan_all(c.obj))
    IN scanned(SseqToTxtConverter_init(buf))

\* TxtToSseqConverter().compile(lines)
compile(lines) ==
    LET RECURSIVE main_loop(_, _)
        main_loop(a, k) ==
            IF k > Len(lines) THEN a ELSE main_loop(compile_line(a, lines[k]), k + 1)
        returned(a) ==
            IF a.err # "" THEN [ok |-> FALSE, err |-> a.err, bytes |-> <<>>]
            ELSE [ok |-> TRUE, err |-> "", bytes |-> compile_result(a)]
    IN returned(compile_finish(main_loop(TxtToSseqConverter_init, 1)))

\* a stream as an SSEQ file: the header compile writes, the stream, zero
\* padding to a multiple of 4
WrapStream(stream) ==
    LET n == Len(stream)
        padded == IF n % 4 # 0 THEN stream \o bytes_zero(4 - (n % 4)) ELSE stream
    IN PackHeader(compile_header(padded)) \o padded

(***************************************************************************)
(* The codec as a state machine: the round trip of the test                *)
(* (tests/test_compile_sseq.py), one step per constructor call, per        *)
(* statement scanned, per line assembled.                                  *)
(*   pc = "start"     the buffer is read, no converter exists yet          *)
(*        "scan"      SseqToTxtConverter constructed, scan pass running    *)
(*        "render"    parse() returned its generator, the lines are taken  *)
(*        "compile"   the listing is rendered, compile consumes its lines  *)
(*        "done"      compile returned                                     *)
(*        "checked"   the result was disassembled again                    *)
(*        "dis_error" the disassembler raised                              *)
(*        "key_error" the generator raised KeyError                        *)
(*        "listed"    the generator ended after set_buffer was called on   *)
(*                    its converter; the listing goes no further here      *)
(*        "asm_error" compile raised (or never returns)                    *)
(***************************************************************************)
\* longest stream of the exhaustive input family
MaxLen == 4

\* the bytes the exhaustive family is built from: padding, a note, Delay,
\* Jump, the VAR and conditional prefixes, Pan, TrackEnd
ByteAlphabet == {0, 60, 128, 148, 161, 162, 192, 255}

RECURSIVE SeqsUpTo(_, _)
SeqsUpTo(S, n) ==
    IF n = 0 THEN {<<>>}
    ELSE LET shorter == SeqsUpTo(S, n - 1)
         IN shorter \cup {Append(q, x) : q \in {r \in shorter : Len(r) = n - 1}, x \in S}

GeneralStreams == SeqsUpTo(ByteAlphabet, MaxLen)

\* 16-bit words used as RAN bounds, as (low byte, high byte)
EdgeWords == {<<0, 0>>, <<63, 0>>, <<64, 0>>, <<255, 127>>, <<0, 128>>,
              <<191, 255>>, <<192, 255>>, <<255, 255>>}

\* Pan with every argument byte, plain and conditional, and with RAN bounds
PanStreams ==
    {<<192, v, 255>> : v \in 0..255}
    \cup {<<162, 192, v, 255>> : v \in {0, 63, 64, 255}}
    \cup {<<161, 192, v, 255>> : v \in {0, 63, 64, 255}}
    \cup {<<160, 192>> \o lo \o hi \o <<255>> : lo \in EdgeWords, hi \in EdgeWords}

\* largest Pointer target of the two-track family
MaxTarget == 9

\* what follows the Pointer in the two-track family
TrackBodies ==
    {<<255, 255>>, <<60, 100, 48, 255, 255>>, <<128, 5, 255, 192, 63, 255>>, <<255>>, <<>>}

\* tracks-used header with mask 0b11, one Pointer for track 1
TwoTrackStreams ==
    {<<254, 3, 0, 147, 1, t, 0, 0>> \o body : t \in 0..MaxTarget, body \in TrackBodies}

\* streams with one Pointer but no tracks-used header, and with branches
BranchStreams ==
    {<<147, k, t, 0, 0, 255, 255>> : k \in {0, 1, 16}, t \in {0, 5, 6}}
    \cup {<<op, t, 0, 0, 255>> : op \in {148, 149}, t \in {0, 2, 4, 7}}

\* two prefix bytes in every order, then Delay 5 and TrackEnd
PrefixStreams == {<<a, b, 128, 5, 255>> : a \in {160, 161, 162}, b \in {160, 161, 162}}

\* the opcodes that are neither a member of SseqCommandId nor a prefix
UnknownOpcodes == (128 .. 255) \ (DOMAIN SseqCommandId \cup {160, 161, 162})

\* an unknown opcode first (254 there is the tracks-used opcode), followed
\* by bytes to take as its arguments: small values, a zero, a
\* variable-length value with a leading empty group, one of six bytes
UnknownStreams ==
    {<<op>> \o arg \o <<255>> :
        op \in UnknownOpcodes \ {254}, arg \in {<<5, 1, 2>>, <<0, 1, 2>>, <<128, 5, 1>>}}
    \cup {<<130, 255, 255, 255, 255, 127, 255>>}

\* every note byte with three velocities and a duration of one and of two
\* bytes, then TrackEnd
NoteStreams ==
    {<<n, v>> \o d \o <<255>> :
        n \in 0 .. 127, v \in {0, 100, 255}, d \in {<<1>>, <<48>>, <<129, 0>>}}

StreamInputs ==
    GeneralStreams \cup PanStreams \cup TwoTrackStreams \cup BranchStreams \cup PrefixStreams
    \cup UnknownStreams \cup NoteStreams

\* no generator: parse() has not been called
NoGenerator == [at |-> "none", commands |-> <<>>, i |-> 0, disturbed |-> FALSE]

SseqInit ==
    /\ pc = "start"
    /\ buffer \in {WrapStream(s) : s \in StreamInputs}
    /\ dis = NoConverter
    /\ text = <<>>
    /\ asm = TxtToSseqConverter_init
    /\ lineno = 0
    /\ result = <<>>
    /\ text2 = [ok |-> FALSE, lines |-> <<>>]
    /\ gen = NoGenerator
    /\ VarlenIdle
    /\ InfoIdle
    /\ ReaderIdle
    /\ CallIdle

\* SseqToTxtConverter(buffer)
Construct ==
    /\ pc = "start"
    /\ LET c == SseqToTxtConverter_init(buffer)
       IN /\ dis' = c.obj
          /\ pc' = IF c.ok THEN "scan" ELSE "dis_error"
    /\ UNCHANGED <<buffer, text, asm, lineno, result, text2, gen>>
    /\ UNCHANGED notSseq

\* the files set_buffer is called with
SetBufferInputs == {WrapStream(<<128, 3, 255>>), WrapStream(<<148, 0, 0, 0, 255>>)}

\* SseqToTxtConverter.set_buffer(b): __init__ runs again, self.labels and
\* self.commands are new dicts.  It is called on a converter whose scan
\* pass has ended, before parse() returns its generator, or once while the
\* generator is suspended or not yet started; the generator keeps the
\* items of the dict it iterates
SetBuffer ==
    /\ \/ pc = "scan" /\ dis.cursor >= Len(dis.view)
       \/ pc = "render" /\ ~gen.disturbed
    /\ \E b \in SetBufferInputs :
          LET c == SseqToTxtConverter_init(b)
          IN /\ buffer' = b
             /\ dis' = c.obj
             /\ pc' = IF c.ok THEN pc ELSE "dis_error"
    /\ gen' = IF pc = "render" THEN [gen EXCEPT !.disturbed = TRUE] ELSE gen
    /\ UNCHANGED <<text, asm, lineno, result, text2>>
    /\ UNCHANGED notSseq

\* one statement of the scan pass
ScanStep ==
    /\ pc = "scan"
    /\ dis.cursor < Len(dis.view)
    /\ LET step(st) == IF st.ok
                       THEN dis' = scan_commands(dis, st) /\ pc' = pc
                       ELSE dis' = [dis EXCEPT !.cursor = st.cur] /\ pc' = "dis_error"
       IN step(parse_track(dis.view, dis.cursor))
    /\ UNCHANGED <<buffer, text, asm, lineno, result, text2, gen>>
    /\ UNCHANGED notSseq

\* parse(): the scan pass has ended and the generator of
\* iter_format_commands is returned; none of its body has run
Parse ==
    /\ pc = "scan"
    /\ dis.cursor >= Len(dis.view)
    /\ gen' = [at |-> "created", commands |-> <<>>, i |-> 0, disturbed |-> FALSE]
    /\ text' = <<>>
    /\ pc' = "render"
    /\ UNCHANGED <<buffer, dis, asm, lineno, result, text2>>
    /\ UNCHANGED notSseq

\* scan_commands() on the converter while its generator is suspended: the
\* whole loop over the buffer set_buffer gave it
Rescan ==
    /\ pc = "render"
    /\ dis.cursor < Len(dis.view)
    /\ LET scanned(s) == dis' = s.obj /\ pc' = IF s.ok THEN pc ELSE "dis_error"
       IN scanned(scan_all(dis))
    /\ UNCHANGED <<buffer, text, asm, lineno, result, text2, gen>>
    /\ UNCHANGED notSseq

\* one next() on the generator, as the list comprehension of the test takes
\* the lines and fills in the sequence name; when the generator ends, the
\* listing is complete and the assembler is constructed
Render ==
    /\ pc = "render"
    /\ LET taken(r) ==
               /\ gen' = r.gen
               /\ text' = IF r.out = "yield" THEN Append(text, format(r.line, SEQNAME))
                          ELSE text
               /\ pc' = CASE r.out = "yield" -> pc
                          [] r.out = "KeyError" -> "key_error"
                          [] OTHER -> IF gen.disturbed THEN "listed" ELSE "compile"
       IN taken(gen_next(dis, gen))
    /\ asm' = TxtToSseqConverter_init
    /\ lineno' = 0
    /\ UNCHANGED <<buffer, dis, result, text2>>
    /\ UNCHANGED notSseq

\* one line of the main loop of compile
CompileLine ==
    /\ pc = "compile"
    /\ lineno < Len(text)
    /\ asm' = compile_line(asm, text[lineno + 1])
    /\ lineno' = lineno + 1
    /\ pc' = IF asm'.err # "" THEN "asm_error" ELSE pc
    /\ UNCHANGED <<buffer, dis, text, result, text2, gen>>
    /\ UNCHANGED notSseq

\* the end of compile
CompileFinish ==
    /\ pc = "compile"
    /\ lineno = Len(text)
    /\ asm' = compile_finish(asm)
    /\ IF asm'.err # ""
       THEN pc' = "asm_error" /\ result' = result
       ELSE pc' = "done" /\ result' = compile_result(asm')
    /\ UNCHANGED <<buffer, dis, text, lineno, text2, gen>>
    /\ UNCHANGED notSseq

\* SseqToTxtConverter(compiled).parse()
Reparse ==
    /\ pc = "done"
    /\ text2' = parse(result)
    /\ pc' = "checked"
    /\ UNCHANGED <<buffer, dis, text, asm, lineno, result, gen>>
    /\ UNCHANGED notSseq

SseqNext ==
    \/ Construct \/ SetBuffer \/ ScanStep \/ Parse \/ Rescan \/ Render
    \/ CompileLine \/ CompileFinish \/ Reparse

SpecSseq == SseqInit /\ [][SseqNext]_vars

(***************************************************************************)
(* Properties of the codec                                                 *)
(***************************************************************************)
\* no statement of the scan is an unknown command
NoUnknownCommand ==
    \A i \in 1..Len(dis.commands) : dis.commands[i].cmdstr.tag # "none"

\* C1: for every stream that decodes without an unknown-command statement,
\* compiling the listing returns, and returns exactly the input file
C1_BinaryRoundTrip ==
    /\ (pc = "asm_error" => ~NoUnknownCommand)
    /\ (pc \in {"done", "checked"} /\ NoUnknownCommand => result = buffer)

\* a listing without its comments and trailing whitespace
Normalize(lines) == [i \in 1..Len(lines) |-> rstrip(SplitComment(lines[i]))]

\* C2: for every listing the disassembler produced, compiling it returns a
\* binary whose listing is the same up to comments and whitespace
C2_TextRoundTrip ==
    /\ pc # "asm_error"
    /\ (pc = "checked" => text2.ok /\ Normalize(text2.lines) = Normalize(text))

\* the first statement is a Pan command without a VAR override, and the
\* line that renders it has just been compiled
PanCompiled ==
    /\ pc \in {"compile", "asm_error"}
    /\ lineno = 2
    /\ dis.commands # <<>>
    /\ dis.commands[1].cmdstr = [tag |-> "cmd", id |-> CmdPan]
    /\ dis.commands[1].valueType # "VAR"

PanText == <<"\t">> \o CondPrefix(dis.commands[1].conditional) \o <<"P","a","n"," ">>

PanPrefixBytes == IF dis.commands[1].conditional THEN <<162>> ELSE <<>>

\* the position of the argument of the first statement
PanArgPos ==
    dis.commands[1].addr + 1 + Len(PanPrefixBytes)
    + (IF dis.commands[1].valueType = "RAN" THEN 1 ELSE 0)

\* the signed reading of a 16-bit word
Signed16(w) == IF w >= 32768 THEN w - 65536 ELSE w

\* C4: a Pan argument byte v is rendered as v - 0x40 (0x3F as -1) and the
\* rendered value assembles to v again; each 16-bit bound w of a RAN
\* argument is rendered as its signed value minus 0x40 and assembles to w
C4_PanBias ==
    PanCompiled =>
        IF dis.commands[1].valueType = "NOINIT"
        THEN LET v == read_8bit(dis.view, PanArgPos).x
             IN /\ text[2] = PanText \o Str(v - 64)
                /\ asm.err = ""
                /\ asm.compiled = PanPrefixBytes \o <<192, v>>
        ELSE LET lo == read_16bit(dis.view, PanArgPos, FALSE).x
                 hi == read_16bit(dis.view, PanArgPos + 2, FALSE).x
             IN /\ text[2] = PanText \o <<"R","A","N","(">> \o Str(Signed16(lo) - 64)
                             \o CommaSpace \o Str(Signed16(hi) - 64) \o <<")">>
                /\ asm.err = ""
                /\ asm.compiled = PanPrefixBytes \o <<160, 192>>
                                  \o ToBytesLE(lo, 2) \o ToBytesLE(hi, 2)

\* C4 witness: the byte 0x3F was rendered as -1 and assembled to 0x3F
C4_Witness ==
    /\ PanCompiled
    /\ read_8bit(dis.view, PanArgPos).x = 63
    /\ text[2] = <<"\t","P","a","n"," ","-","1">>
    /\ asm.compiled = <<192, 63>>

\* the stream begins with the tracks-used opcode
StartsWithTracksUsed == read_8bit(buffer, HeaderSize).x = 254

\* the converter has just been constructed
JustConstructed == pc = "scan" /\ dis.commands = <<>>

IsBranch(c) == c.cmdstr.tag = "cmd" /\ c.cmdstr.id \in {CmdPointer, CmdJump, CmdCall}

\* the scan of a two-track stream is complete: tracks-used header with
\* mask 0b11, then one Pointer for track 1, and no other branch statement
TwoTrackScanned ==
    /\ pc \in {"compile", "done", "checked", "asm_error"}
    /\ StartsWithTracksUsed
    /\ dis.trackMask = 3
    /\ dis.commands # <<>>
    /\ dis.commands[1].cmdstr = [tag |-> "cmd", id |-> CmdPointer]
    /\ dis.commands[1].params[1] = 1
    /\ \A i \in 2..Len(dis.commands) : ~IsBranch(dis.commands[i])

\* C5 as stated: the first track's label is registered at address 0, and
\* the two-track stream has one label at offset 0 and one at the target
C5_LabelAtZero ==
    /\ (JustConstructed => dis.labels = (0 :> TkLabel(0)))
    /\ (TwoTrackScanned =>
          /\ DOMAIN dis.labels = {0, dis.commands[1].params[2]}
          /\ dis.labels[dis.commands[1].params[2]] = TkLabel(1))

\* C5 amended: the first track's label is registered at the offset of the
\* first statement, 0 without and 3 with the tracks-used header; the
\* two-track stream has two tracks and exactly the labels at offset 3
\* (track 0's, unless the Pointer targets 3) and at the Pointer target
C5_LabelAtFirstStatement ==
    /\ (JustConstructed =>
          dis.labels = ((IF StartsWithTracksUsed THEN 3 ELSE 0) :> TkLabel(0)))
    /\ (TwoTrackScanned =>
          LET target == dis.commands[1].params[2]
          IN /\ dis.ntracks = 2
             /\ DOMAIN dis.labels = {3, target}
             /\ dis.labels[target] = TkLabel(1)
             /\ (target # 3 => dis.labels[3] = TkLabel(0)))

\* C5 witness: a two-track stream was scanned, track 1 starts at offset 8
C5_Witness ==
    /\ TwoTrackScanned
    /\ dis.commands[1].params[2] = 8
    /\ DOMAIN dis.labels = {3, 8}

(***************************************************************************)
(* The variable-length integer on its own: write_varlen, then read_varlen  *)
(***************************************************************************)
MaxVarlen == 200

\* the values whose encodings change length, and the largest representable
VarlenEdges == {16383, 16384, 2097151, 2097152, 268435455}

VarlenInit ==
    /\ vl \in {[pc |-> "input", value |-> v, a |-> TxtToSseqConverter_init,
                r |-> [x |-> 0, cur |-> 0, ok |-> FALSE]] :
               v \in (0 .. MaxVarlen) \cup VarlenEdges}
    /\ SseqIdle
    /\ InfoIdle
    /\ ReaderIdle
    /\ CallIdle

\* TxtToSseqConverter().write_varlen(value)
WriteVarlen ==
    /\ vl.pc = "input"
    /\ vl' = [vl EXCEPT !.a = write_varlen(vl.a, vl.value), !.pc = "written"]
    /\ UNCHANGED notVarlen

\* SseqToTxtConverter.read_varlen over the bytes written
ReadVarlen ==
    /\ vl.pc = "written"
    /\ vl.a.err = ""
    /\ vl' = [vl EXCEPT !.r = read_varlen(vl.a.compiled, 0), !.pc = "read"]
    /\ UNCHANGED notVarlen

VarlenNext == WriteVarlen \/ ReadVarlen

SpecVarlen == VarlenInit /\ [][VarlenNext]_vars

\* C3: each v of {0, 127, 128, 16383, 0xFFFFFFF} is written without an
\* exception, as bytes of which only the last has the high bit clear, and
\* reading them back returns v and consumes exactly the bytes written
C3_VarlenRoundTrip ==
    vl.value \in {0, 127, 128, 16383, 268435455} =>
        /\ (vl.pc \in {"written", "read"} =>
              /\ vl.a.err = ""
              /\ \A i \in 1 .. Len(vl.a.compiled) :
                    (vl.a.compiled[i] >= 128) <=> (i < Len(vl.a.compiled)))
        /\ (vl.pc = "read" =>
              /\ vl.r.ok
              /\ vl.r.x = vl.value
              /\ vl.r.cur = Len(vl.a.compiled))

(***************************************************************************)
(* info.py: the info records, the file descriptors and set_symbols         *)
(*                                                                         *)
(* A Python list that may be long is a record [len, at, default]: the      *)
(* element at Python index i is at[i] where given, default elsewhere.      *)
(* None is <<>> where a reference is expected and a record of kind -1      *)
(* where an info record is; a reference to the element i of a list is      *)
(* <<i>>.  A path is the sequence of its components: '' is <<>> and         *)
(* os.path.join('Files', 'Unknown', 'UNK_00000.bin') is                     *)
(* <<"Files", "Unknown", "UNK_00000.bin">>.  The list of file descriptors   *)
(* has a fourth field, named: an entry below it that at does not give is    *)
(* the NativeFileInfo() that dump_files has named after its index.          *)
(***************************************************************************)
SEQ == 0

SEQARC == 1

BANK == 2

WAVARC == 3

PLAYER == 4

GROUP == 5

PLAYER2 == 6

STRM == 7

\* CoreInfoType(k).name
KindName == <<"SEQ", "SEQARC", "BANK", "WAVARC", "PLAYER", "GROUP", "PLAYER2", "STRM">>

\* file_types[k].ext; None where the category has no files
file_types == <<".sseq", ".ssar", ".sbnk", ".swar", "", "", "", ".strm">>

\* the fields of InfoData, in the order of its __iter__
InfoFields == <<"seq", "seqArc", "bank", "waveArc", "player", "group", "strmPlayer", "strm">>

NoneInfo == [kind |-> -1]

NNSSndArcSeqInfo(fileId, bankNo, playerNo) ==
    [kind |-> SEQ, fileId |-> fileId, bankNo |-> bankNo, volume |-> 127,
     channelPrio |-> 64, playerPrio |-> 64, playerNo |-> playerNo, reserved |-> 0,
     name |-> "", filename |-> <<>>, bank |-> <<>>, player |-> <<>>]

NNSSndArcSeqArcInfo(fileId) ==
    [kind |-> SEQARC, fileId |-> fileId, name |-> "", filename |-> <<>>, arc_names |-> <<>>]

NNSSndArcBankInfo(fileId, slots) ==
    [kind |-> BANK, fileId |-> fileId, waveArcNo_0 |-> slots[1], waveArcNo_1 |-> slots[2],
     waveArcNo_2 |-> slots[3], waveArcNo_3 |-> slots[4],
     name |-> "", filename |-> <<>>, waveArc |-> <<>>]

NNSSndArcWaveArcInfo(raw) ==
    [kind |-> WAVARC, raw |-> raw, name |-> "", filename |-> <<>>]

NNSSndArcStrmInfo(fileId) ==
    [kind |-> STRM, fileId |-> fileId, volume |-> 127, playerPrio |-> 64, playerNo |-> 0,
     flags |-> 0, name |-> "", filename |-> <<>>]

NNSSndArcPlayerInfo ==
    [kind |-> PLAYER, seqMax |-> 1, padding |-> 0, allocChBitFlag |-> 0, heapSize |-> 0,
     name |-> ""]

NNSSndArcStrmPlayerInfo ==
    [kind |-> PLAYER2, numChannels |-> 1, chNoList_0 |-> 0, chNoList_1 |-> 255, name |-> ""]

\* a group member; it has no name until set_symbols gives it one
NNSSndArcGroupItem(index) ==
    [kind |-> GROUP, type |-> 0, loadFlags |-> 255, padding |-> 0, index |-> index,
     seq |-> <<>>, name |-> <<>>]

NNSSndArcGroupInfo(items) == [kind |-> GROUP, name |-> "", items |-> items]

NativeFileInfo == [name |-> <<>>, kind |-> 8, contents |-> <<>>]

\* NNSSndArcBankInfo.waveArcNo
waveArcNo(b) ==
    SelectSeq(<<b.waveArcNo_0, b.waveArcNo_1, b.waveArcNo_2, b.waveArcNo_3>>,
              LAMBDA x : x # 65535)

\* NNSSndArcWaveArcInfo.fileId, and the plain field of the other records
fileId(rec) == IF rec.kind = WAVARC THEN rec.raw % 16777216 ELSE rec.fileId

\* NNSSndArcWaveArcInfo.fileId = value:
\* self.raw = (self.raw & ~0xFFFFFF) | (value & 0xFFFFFF)
fileId_setter(rec, value) ==
    [rec EXCEPT !.raw = (@ \div 16777216) * 16777216 + (value % 16777216)]

\* NNSSndArcWaveArcInfo.flags = value:
\* self.raw = (self.raw & ~0xFF000000) | ((value & 0xFF) << 24), for raw
\* words below 2^32 and a result below 2^31
flags_setter(rec, value) ==
    [rec EXCEPT !.raw = (@ % 16777216) + (value % 256) * 16777216]

\* NNSSndArcBankInfo.waveArcNo = value: the slot i takes value[i], 0xFFFF
\* where value is shorter; elements from the fifth on are dropped with a
\* warning
waveArcNo_setter(rec, value) ==
    LET x(i) == IF i < Len(value) THEN value[i + 1] ELSE 65535
    IN [rec EXCEPT !.waveArcNo_0 = x(0), !.waveArcNo_1 = x(1),
                   !.waveArcNo_2 = x(2), !.waveArcNo_3 = x(3)]

\* hasattr(info, 'name'), hasattr(info, 'fileId')
HasName(rec) == rec.kind # -1

HasFileId(rec) == rec.kind \in {SEQ, SEQARC, BANK, WAVARC, STRM}

\* f'{n:03d}' and f'{n:05d}'
RECURSIVE DecString(_)
DecString(n) ==
    IF n < 10 THEN HexDigits[n + 1] ELSE DecString(n \div 10) \o HexDigits[(n % 10) + 1]

RECURSIVE ZeroPad(_, _)
ZeroPad(str, width) == IF Len(str) >= width THEN str ELSE ZeroPad("0" \o str, width)

\* list[i] and len(list) of a long list
ListGet(l, i) == IF i \in DOMAIN l.at THEN l.at[i] ELSE l.default

\* os.path.join('Files', 'Unknown', f'UNK_{i:05d}.bin')
UnknownName(i) == <<"Files", "Unknown", "UNK_" \o ZeroPad(DecString(i), 5) \o ".bin">>

\* self.file_descriptions[i]
DescGet(l, i) ==
    IF i \in DOMAIN l.at THEN l.at[i]
    ELSE IF i < l.named THEN [l.default EXCEPT !.name = UnknownName(i)]
    ELSE l.default

\* list[i], the object itself: None stays None
Ref(list, i) == IF list[i + 1].kind = -1 THEN <<>> ELSE <<i>>

\* InfoData.set_name
set_name(rec, symb, info_idx) ==
    LET r1 == IF rec.kind = SEQARC
              THEN [rec EXCEPT !.name = symb[1], !.arc_names = symb[2]]
              ELSE [rec EXCEPT !.name = symb]
    IN IF r1.name = ""
       THEN [r1 EXCEPT !.name = KindName[rec.kind + 1] \o "_" \o ZeroPad(DecString(info_idx), 3)]
       ELSE r1

\* a faulty add_file: the descriptor list gets longer at every call
add_file_regrow(st, f, i, contents) ==
    LET rec == st.info[f][i + 1]
        id == fileId(rec)
        desc == DescGet(st.fds, id)
        grown == [st EXCEPT !.fds.len = @ + id + 1]
    IN IF desc.name = <<>>
       THEN [grown EXCEPT !.err = "AttributeError"]
       ELSE [grown EXCEPT !.info[f][i + 1].filename = desc.name]

\* InfoData.add_file(info, contents), info being the record i of the list f;
\* st is the InfoData object: its lists, its descriptors, the exception raised.
\* The descriptor list grows to hold the slot; for a descriptor without a
\* name, info._kind.make_file_name is looked up on a CoreInfoType member,
\* which has no such attribute (sdat_io.py, class CoreInfoType): the call
\* raises AttributeError before the descriptor or the record is assigned.
\* A descriptor that has a name gives it to the record.
add_file(st, f, i, contents) ==
    LET rec == st.info[f][i + 1]
        id == fileId(rec)
        desc == DescGet(st.fds, id)
        grown == [st EXCEPT !.fds.len = Max(@, id + 1)]
    IN IF desc.name = <<>>
       THEN [grown EXCEPT !.err = "AttributeError"]
       ELSE [grown EXCEPT !.info[f][i + 1].filename = desc.name]

\* the loop over the members of the group gi (1-based), from member j on
RECURSIVE bind_group_items(_, _, _)
bind_group_items(st, gi, j) ==
    LET g == st.info.group[gi]
    IN IF j >= Len(g.items) THEN st
       ELSE LET x == g.items[j + 1]
                st1 == [st EXCEPT !.info.group[gi].items[j + 1].name =
                                      <<g.name \o "_" \o ZeroPad(DecString(j), 3)>>]
            IN IF x.index >= Len(st.info.seq)
               THEN [st1 EXCEPT !.err = "IndexError"]
               ELSE bind_group_items(
                        [st1 EXCEPT !.info.group[gi].items[j + 1].seq =
                                        Ref(st.info.seq, x.index)], gi, j + 1)

\* the isinstance branches of set_symbols
bind_refs(st, f, i) ==
    LET rec == st.info[f][i + 1]
    IN IF rec.kind = SEQ
       THEN IF rec.bankNo >= Len(st.info.bank) THEN [st EXCEPT !.err = "IndexError"]
            ELSE LET st1 == [st EXCEPT !.info[f][i + 1].bank = Ref(st.info.bank, rec.bankNo)]
                 IN IF rec.playerNo >= Len(st.info.player)
                    THEN [st1 EXCEPT !.err = "IndexError"]
                    ELSE [st1 EXCEPT !.info[f][i + 1].player =
                                         Ref(st.info.player, rec.playerNo)]
       ELSE IF rec.kind = BANK
       THEN LET nos == waveArcNo(rec)
            IN IF \E k \in 1 .. Len(nos) : nos[k] >= Len(st.info.waveArc)
               THEN [st EXCEPT !.err = "IndexError"]
               ELSE [st EXCEPT !.info[f][i + 1].waveArc =
                                   [k \in 1 .. Len(nos) |-> Ref(st.info.waveArc, nos[k])]]
       ELSE IF rec.kind = GROUP
       THEN bind_group_items(st, i + 1, 0)
       ELSE st

\* the body of the inner loop of set_symbols
bind_record(st, f, i, symb, fls) ==
    LET rec == st.info[f][i + 1]
    IN IF ~HasName(rec) THEN st
       ELSE LET st1 == [st EXCEPT !.info[f][i + 1] = set_name(rec, symb, i)]
                id == fileId(rec)
            IN IF HasFileId(rec)
               THEN IF id >= fls.len
                    THEN [st1 EXCEPT !.err = "IndexError"]
                    ELSE LET st2 == add_file(st1, f, i, ListGet(fls, id))
                         IN IF st2.err # "" THEN st2 ELSE bind_refs(st2, f, i)
               ELSE bind_refs(st1, f, i)

\* the inner loop: zip(infolist, symbollist) from index i on
RECURSIVE bind_list(_, _, _, _, _)
bind_list(st, f, i, symbs, fls) ==
    IF st.err # "" \/ i >= Min(Len(st.info[f]), Len(symbs[f])) THEN st
    ELSE bind_list(bind_record(st, f, i, symbs[f][i + 1], fls), f, i + 1, symbs, fls)

\* the outer loop: zip(self, symbols) from the field k on
RECURSIVE bind_fields(_, _, _, _)
bind_fields(st, k, symbs, fls) ==
    IF st.err # "" \/ k > Len(InfoFields) THEN st
    ELSE bind_fields(bind_list(st, InfoFields[k], 0, symbs, fls), k + 1, symbs, fls)

\* InfoData.set_symbols(symbols, files)
set_symbols(inf, fds, symbs, fls) ==
    bind_fields([info |-> inf, fds |-> fds, err |-> ""], 1, symbs, fls)
(***************************************************************************)
(* info.py: dump_files                                                     *)
(***************************************************************************)
\* InfoData.dump_files(outdir) on the lists inf and the descriptors fds, the
\* output directory holding the directories existing (<<>> is outdir
\* itself): the descriptors as it leaves them, the directories there are
\* afterwards, the files write_binary wrote (the file of the descriptor i
\* at index i) and the exception raised.  The loop over the descriptors
\* stops at the first descriptor that raises: FileNotFoundError from
\* open() in write_binary when the directory of the descriptor's name does
\* not exist, AttributeError from dump_text when the kind is a CoreInfoType
\* member (file_type.bin_ext is looked up on a FileType, which has the
\* fields ext and header only; the kind 8 of NativeFileInfo() returns at
\* once).  A descriptor without a name never raises in write_binary, the
\* directory Files/Unknown being made before it is named.
dump_files(inf, fds, existing) ==
    LET \* os.makedirs(path, exist_ok=True): the directory and its parents
        makedirs(path) == {SubSeq(path, 1, n) : n \in 0 .. Len(path)}
        made == existing \cup UNION {makedirs(<<"Files", KindName[k]>>) :
                    k \in {j \in 1 .. Len(InfoFields) :
                              file_types[j] # "" /\ inf[InfoFields[j]] # <<>>}}
        given == {i \in DOMAIN fds.at : i < fds.len}
        \* the first index from i on that at does not give
        RECURSIVE skip(_)
        skip(i) == IF i \in given THEN skip(i + 1) ELSE i
        least(S) == CHOOSE x \in S : \A y \in S : x <= y
        \* the first descriptor without a name: Files/Unknown is made there
        unnamed == {i \in given : fds.at[i].name = <<>>}
                   \cup {i \in {skip(fds.named)} : i < fds.len}
        firstUnnamed == IF unnamed = {} THEN fds.len ELSE least(unnamed)
        dirsAt(i) == IF firstUnnamed <= i
                     THEN made \cup makedirs(<<"Files", "Unknown">>) ELSE made
        name(i) == IF DescGet(fds, i).name = <<>> THEN UnknownName(i)
                   ELSE DescGet(fds, i).name
        dirname(path) == SubSeq(path, 1, Len(path) - 1)
        write_binary_raises(i) == dirname(name(i)) \notin dirsAt(i)
        dump_text_raises(i) == DescGet(fds, i).kind # 8
        \* the descriptors that raise: those at gives, and of the others
        \* the first that an earlier call named, when Files/Unknown is not
        \* there (the later ones are not reached)
        raising == {i \in given : write_binary_raises(i) \/ dump_text_raises(i)}
                   \cup {i \in {skip(0)} : i < Min(fds.named, fds.len)
                                            /\ write_binary_raises(i)}
        stop == IF raising = {} THEN fds.len ELSE least(raising)
        err == IF stop = fds.len THEN ""
               ELSE IF write_binary_raises(stop) THEN "FileNotFoundError"
               ELSE "AttributeError"
        written == IF err = "AttributeError" THEN stop + 1 ELSE stop
    IN [fds  |-> [fds EXCEPT !.named = Max(@, written),
                             !.at = [i \in DOMAIN fds.at |->
                                        IF i < written THEN [fds.at[i] EXCEPT !.name = name(i)]
                                        ELSE fds.at[i]]],
        dirs |-> IF written = 0 THEN made ELSE dirsAt(written - 1),
        bin  |-> [len |-> written,
                  at |-> [i \in {j \in given : j < written} |->
                             [name |-> name(i), contents |-> fds.at[i].contents]]],
        err  |-> err]

(***************************************************************************)
(* The InfoData object as a state machine: an archive's info lists,        *)
(* symbols and files are chosen; set_symbols, dump_files and the setters   *)
(* of the records are then called in any order                             *)
(***************************************************************************)
MaxFileId == 2

MaxRuns == 2

NoSlot == <<65535, 65535, 65535, 65535>>

DefaultArchive ==
    [nfiles |-> MaxFileId + 1, seqFile |-> 0, seqBank |-> 0, seqPlayer |-> 0,
     arcFile |-> 1, bankFile |-> 2, slots |-> <<0, 65535, 1, 65535>>, nWaveArc |-> 2,
     waveRaw |-> 2, member |-> 0, strmFile |-> 1, names |-> "full", nonePlayer |-> FALSE,
     payload |-> "short"]

\* archives that differ in the file slots their records reference
FileArchives ==
    {[DefaultArchive EXCEPT !.nfiles = n, !.seqFile = a, !.arcFile = b, !.bankFile = c,
                            !.waveRaw = w, !.strmFile = m, !.names = s] :
        n \in {MaxFileId + 1, MaxFileId + 2}, a \in 0 .. MaxFileId + 1,
        b \in {0, 1}, c \in {MaxFileId}, w \in {1, 16777216 + 2}, m \in {1},
        s \in {"full", "waves"}}

\* archives with a record whose fileId is 65536, with and without a file
\* at that slot
BigArchives ==
    {[DefaultArchive EXCEPT !.nfiles = n, !.seqFile = 65536, !.names = "full"] :
        n \in {MaxFileId + 1, 65537}}
    \cup {[DefaultArchive EXCEPT !.nfiles = n, !.waveRaw = w, !.names = "waves"] :
        n \in {MaxFileId + 1, 65537}, w \in {65536, 16777216 + 65536}}

\* archives that differ in the wave archive slots of the first bank
SlotArchives ==
    {[DefaultArchive EXCEPT !.slots = s] : s \in [1 .. 4 -> {0, 1, 65535}]}
    \cup {[DefaultArchive EXCEPT !.slots = <<a, b, 65535, 65535>>, !.nWaveArc = 1] :
             a \in {0, 1, 65535}, b \in {0, 1, 65535}}

\* archives that differ in the cross-references and in the symbols
RefArchives ==
    {[DefaultArchive EXCEPT !.seqBank = b, !.seqPlayer = pq[1], !.member = g, !.names = s,
                            !.nonePlayer = pq[2]] :
        b \in 0 .. 3, pq \in ((0 .. 2) \X {FALSE}) \cup {<<1, TRUE>>}, g \in {0, 1, 5},
        s \in {"full", "short", "long", "unnamed", "nofiles"}}

\* archives that differ in what their files hold and in the slots claimed
DumpArchives ==
    {[DefaultArchive EXCEPT !.nfiles = n, !.seqFile = a, !.bankFile = c, !.payload = f,
                            !.names = s] :
        n \in {MaxFileId + 1, MaxFileId + 2}, a \in {0, 1}, c \in {0, 2},
        f \in {"short", "sseq"}, s \in {"full", "short", "unnamed", "nofiles"}}

Archives ==
    FileArchives \cup BigArchives \cup SlotArchives \cup RefArchives \cup DumpArchives

ArchiveInfo(p) ==
    [seq |-> <<NNSSndArcSeqInfo(p.seqFile, p.seqBank, p.seqPlayer),
               NNSSndArcSeqInfo(1, 0, 0)>>,
     seqArc |-> <<NNSSndArcSeqArcInfo(p.arcFile)>>,
     bank |-> <<NNSSndArcBankInfo(p.bankFile, p.slots), NNSSndArcBankInfo(2, NoSlot),
                NNSSndArcBankInfo(2, <<65535, 0, 65535, 65535>>)>>,
     waveArc |-> SubSeq(<<NNSSndArcWaveArcInfo(p.waveRaw),
                          NNSSndArcWaveArcInfo(16777216 + 1)>>, 1, p.nWaveArc),
     player |-> <<NNSSndArcPlayerInfo,
                  IF p.nonePlayer THEN NoneInfo ELSE NNSSndArcPlayerInfo>>,
     group |-> <<NNSSndArcGroupInfo(<<NNSSndArcGroupItem(0), NNSSndArcGroupItem(p.member)>>)>>,
     strmPlayer |-> <<NNSSndArcStrmPlayerInfo>>,
     strm |-> <<NNSSndArcStrmInfo(p.strmFile)>>]

ArchiveSymbols(p) ==
    IF p.names = "full" THEN
        [seq |-> <<"BGM", "">>, seqArc |-> << <<"ARC", <<"A0", "">> >> >>,
         bank |-> <<"BANK_A", "BANK_B", "BANK_C">>, waveArc |-> <<"WAVE_A", "">>,
         player |-> <<"PLY", "">>, group |-> <<"GRP">>, strmPlayer |-> <<"">>,
         strm |-> <<"STRM_A">>]
    ELSE IF p.names = "short" THEN
        [seq |-> <<"BGM">>, seqArc |-> << <<"ARC", <<"A0", "">> >> >>,
         bank |-> <<"BANK_A">>, waveArc |-> <<>>,
         player |-> <<"PLY">>, group |-> <<"GRP">>, strmPlayer |-> <<>>,
         strm |-> <<"STRM_A">>]
    ELSE IF p.names = "long" THEN
        [seq |-> <<"BGM", "SE", "X">>, seqArc |-> << <<"ARC", <<>> >>, <<"Y", <<>> >> >>,
         bank |-> <<"BANK_A", "BANK_B", "BANK_C", "Z">>, waveArc |-> <<"WAVE_A", "WAVE_B", "W">>,
         player |-> <<"PLY", "PLY_B", "V">>, group |-> <<"GRP", "U">>,
         strmPlayer |-> <<"SP", "T">>, strm |-> <<"STRM_A", "R">>]
    ELSE IF p.names = "waves" THEN
        \* no symbols for the sequences, the sequence archives and the banks
        [seq |-> <<>>, seqArc |-> <<>>, bank |-> <<>>, waveArc |-> <<"WAVE_A", "">>,
         player |-> <<"PLY", "">>, group |-> <<"GRP">>, strmPlayer |-> <<"">>,
         strm |-> <<"STRM_A">>]
    ELSE IF p.names = "nofiles" THEN
        \* no symbols for the categories whose records carry a fileId
        [seq |-> <<>>, seqArc |-> <<>>, bank |-> <<>>, waveArc |-> <<>>,
         player |-> <<"PLY", "">>, group |-> <<"GRP">>, strmPlayer |-> <<"">>,
         strm |-> <<>>]
    ELSE
        [seq |-> <<"", "">>, seqArc |-> << <<"", <<>> >> >>,
         bank |-> <<"", "", "">>, waveArc |-> <<"", "">>,
         player |-> <<"", "">>, group |-> <<"">>, strmPlayer |-> <<"">>,
         strm |-> <<"">>]

\* the file of the slot i: two bytes, or an SSEQ file of one TrackEnd
ArchivePayload(p, i) ==
    IF p.payload = "sseq" THEN WrapStream(<<255>>) ELSE <<83, i>>

ArchiveFiles(p) ==
    [len |-> p.nfiles, at |-> [i \in 0 .. MaxFileId |-> ArchivePayload(p, i)],
     default |-> <<>>]

InfoInit ==
    /\ \E p \in Archives :
          /\ info = ArchiveInfo(p)
          /\ symbols = ArchiveSymbols(p)
          /\ files = ArchiveFiles(p)
    /\ file_descriptions = [len |-> 0, at |-> <<>>, default |-> NativeFileInfo, named |-> 0]
    /\ bind = [runs |-> 0, passed |-> FALSE, err |-> "", edited |-> FALSE]
    /\ outdir = [done |-> FALSE, dirs |-> {<<>>}, bin |-> [len |-> 0, at |-> <<>>],
                 err |-> ""]
    /\ SseqIdle
    /\ VarlenIdle
    /\ ReaderIdle
    /\ CallIdle

\* InfoData.set_symbols(symbols, files).  bind.runs counts the calls since
\* the last call of another method, bind.passed says that set_symbols has
\* been called and no setter since, bind.err is what the last call raised.
SetSymbols ==
    /\ bind.runs < MaxRuns
    /\ LET r == set_symbols(info, file_descriptions, symbols, files)
       IN /\ info' = r.info
          /\ file_descriptions' = r.fds
          /\ bind' = [bind EXCEPT !.runs = @ + 1, !.passed = TRUE, !.err = r.err]
    /\ UNCHANGED <<symbols, files, outdir>>
    /\ UNCHANGED notInfo

\* InfoData.dump_files(outdir), outdir being the directory of the last call
\* or a new, empty one
DumpFiles ==
    /\ \E existing \in {outdir.dirs, {<<>>}} :
          LET r == dump_files(info, file_descriptions, existing)
          IN /\ file_descriptions' = r.fds
             /\ outdir' = [done |-> TRUE, dirs |-> r.dirs, bin |-> r.bin, err |-> r.err]
    /\ bind' = [bind EXCEPT !.runs = 0]
    /\ UNCHANGED <<info, symbols, files>>
    /\ UNCHANGED notInfo

\* the values the setters are called with; one setter is called in a run
FileIdInputs == {33554432 + 2}

FlagsInputs == {256 + 2}

WaveArcNoInputs == {<<1, 0>>, <<0, 1, 0, 1, 0>>}

\* info.waveArc[0].fileId = value
SetFileId ==
    /\ ~bind.edited
    /\ info.waveArc # <<>>
    /\ \E value \in FileIdInputs :
          info' = [info EXCEPT !.waveArc[1] = fileId_setter(@, value)]
    /\ bind' = [bind EXCEPT !.runs = 0, !.passed = FALSE, !.edited = TRUE]
    /\ UNCHANGED <<symbols, files, file_descriptions, outdir>>
    /\ UNCHANGED notInfo

\* info.waveArc[0].flags = value
SetFlags ==
    /\ ~bind.edited
    /\ info.waveArc # <<>>
    /\ \E value \in FlagsInputs :
          info' = [info EXCEPT !.waveArc[1] = flags_setter(@, value)]
    /\ bind' = [bind EXCEPT !.runs = 0, !.passed = FALSE, !.edited = TRUE]
    /\ UNCHANGED <<symbols, files, file_descriptions, outdir>>
    /\ UNCHANGED notInfo

\* info.bank[0].waveArcNo = value
SetWaveArcNo ==
    /\ ~bind.edited
    /\ info.bank # <<>>
    /\ \E value \in WaveArcNoInputs :
          info' = [info EXCEPT !.bank[1] = waveArcNo_setter(@, value)]
    /\ bind' = [bind EXCEPT !.runs = 0, !.passed = FALSE, !.edited = TRUE]
    /\ UNCHANGED <<symbols, files, file_descriptions, outdir>>
    /\ UNCHANGED notInfo

InfoNext == SetSymbols \/ DumpFiles \/ SetFileId \/ SetFlags \/ SetWaveArcNo

SpecInfo == InfoInit /\ [][InfoNext]_vars

(***************************************************************************)
(* Properties of the binding pass                                          *)
(***************************************************************************)
\* the records set_symbols visits: <<k, i>> is the record i (1-based) of the
\* field k of InfoData, within the shorter of the info and the symbol list
Visited ==
    {ki \in (1 .. Len(InfoFields)) \X (1 .. 4) :
        /\ ki[2] <= Len(info[InfoFields[ki[1]]])
        /\ ki[2] <= Len(symbols[InfoFields[ki[1]]])
        /\ info[InfoFields[ki[1]]][ki[2]].kind # -1}

RecordAt(ki) == info[InfoFields[ki[1]]][ki[2]]

\* the visited records that carry a fileId, and those add_file has handled
FileRecords == {ki \in Visited : RecordAt(ki).kind \in {SEQ, SEQARC, BANK, WAVARC, STRM}}

Filed == {ki \in FileRecords : RecordAt(ki).filename # <<>>}

\* the records carrying a fileId that the pass got to: set_name named them
Reached == {ki \in FileRecords : RecordAt(ki).name # ""}

SlotOf(ki) ==
    IF RecordAt(ki).kind = WAVARC THEN RecordAt(ki).raw % 16777216 ELSE RecordAt(ki).fileId

Descriptor(id) == DescGet(file_descriptions, id)

\* binding order: by field of InfoData, then by index
Before(a, b) == a[1] < b[1] \/ (a[1] = b[1] /\ a[2] < b[2])

FirstClaimant(id) ==
    CHOOSE a \in FileRecords :
        /\ SlotOf(a) = id
        /\ \A b \in FileRecords : SlotOf(b) = id /\ b # a => Before(a, b)

\* C6: once set_symbols has run, running it again with the same symbols and
\* files, no other method of the object having been called in between,
\* changes no info record, no file descriptor and not the outcome
C6_RebindIsNoOp ==
    [][(bind.runs >= 1 /\ bind'.runs = bind.runs + 1) =>
          /\ info' = info
          /\ file_descriptions' = file_descriptions
          /\ bind'.err = bind.err]_vars

\* C6 witness: set_symbols ran twice in a row and raised nothing; the player
\* and the group have their names, the second member of the group its
\* sequence, and two records that reference one file slot have the filename
\* of its descriptor
C6_Witness ==
    /\ bind.runs = 2
    /\ bind.err = ""
    /\ info.player[1].name = "PLY"
    /\ info.group[1].name = "GRP"
    /\ info.group[1].items[2].index = 1
    /\ info.group[1].items[2].seq = <<1>>
    /\ info.group[1].items[2].name = <<"GRP_001">>
    /\ \E a \in Filed : \E b \in Filed :
          /\ a # b
          /\ SlotOf(a) = SlotOf(b)
          /\ RecordAt(a).filename = Descriptor(SlotOf(a)).name
          /\ RecordAt(b).filename = RecordAt(a).filename

\* C7: a record whose fileId is 65536 or more makes set_symbols fail, so
\* every record that add_file has handled has a fileId below 65536
C7_FileIdBelow65536 ==
    bind.passed =>
        /\ \A ki \in Filed : SlotOf(ki) < 65536
        /\ ((\E ki \in FileRecords : SlotOf(ki) >= 65536) => bind.err # "")

\* C8: after set_symbols, the descriptor at the slot of every record carrying
\* a fileId that the pass got to, the slot being one of the file table, has
\* the record's own category
C8_KindIsOwnCategory ==
    bind.passed =>
        \A ki \in Reached :
            SlotOf(ki) < files.len => Descriptor(SlotOf(ki)).kind = RecordAt(ki).kind

\* every index set_symbols uses is within the list it indexes
RefsInRange ==
    /\ \A ki \in FileRecords : SlotOf(ki) < files.len
    /\ \A ki \in Visited :
          LET r == RecordAt(ki)
          IN /\ (r.kind = SEQ =>
                    r.bankNo < Len(info.bank) /\ r.playerNo < Len(info.player))
             /\ (r.kind = BANK =>
                    \A x \in {r.waveArcNo_0, r.waveArcNo_1, r.waveArcNo_2, r.waveArcNo_3} :
                        x # 65535 => x < Len(info.waveArc))
             /\ (r.kind = GROUP =>
                    \A j \in 1 .. Len(r.items) : r.items[j].index < Len(info.seq))

\* C9: after a set_symbols whose every index is in range, the waveArc list
\* of every bank visited has one element per slot that is not 0xFFFF, the
\* i-th being the wave archive the i-th such slot indexes
C9_WaveArcResolved ==
    (bind.passed /\ RefsInRange) =>
        \A ki \in Visited :
            LET b == RecordAt(ki)
                slots == <<b.waveArcNo_0, b.waveArcNo_1, b.waveArcNo_2, b.waveArcNo_3>>
                live == SelectSeq(slots, LAMBDA x : x # 65535)
            IN b.kind = BANK =>
                  /\ Len(b.waveArc) = Cardinality({j \in 1 .. 4 : slots[j] # 65535})
                  /\ \A k \in 1 .. Len(b.waveArc) : b.waveArc[k] = <<live[k]>>

(***************************************************************************)
(* The offset-table readers (named_struct.py, sdat_io.py, info.py)         *)
(*                                                                         *)
(* A struct class is the sequence of the byte widths of its fields, a      *)
(* struct instance the sequence of its field values, None is <<>>, a       *)
(* decoded string the sequence of its character codes.  The SdatIO object  *)
(* is [data, log, err]: log lists the slices data[lo:hi] that were read (hi  *)
(* clamped to the length of data) and the searches data.find(0, lo).       *)
(***************************************************************************)
FmtOffsetTable == <<4>>

FmtSeqArcOffset == <<4, 4>>

FmtBankInfo == <<4, 2, 2, 2, 2>>

FmtGroupItem == <<1, 1, 2, 4>>

RECURSIVE StructSize(_)
StructSize(fmt) == IF fmt = <<>> THEN 0 ELSE Head(fmt) + StructSize(Tail(fmt))

\* struct.Struct('<' + fmt).unpack(bs)
RECURSIVE StructUnpack(_, _)
StructUnpack(fmt, bs) ==
    IF fmt = <<>> THEN <<>>
    ELSE <<FromBytesLE(Slice(bs, 0, Head(fmt)))>> \o
         StructUnpack(Tail(fmt), SliceFrom(bs, Head(fmt)))

\* data[lo:hi], noted in the log
Logged(io, lo, hi) ==
    [io EXCEPT !.log = Append(@, [op |-> "slice", lo |-> lo, hi |-> Min(hi, Len(io.data))])]

\* DataClass.unpack_from
unpack_from(io, fmt, offset) ==
    LET io1 == Logged(io, offset, offset + StructSize(fmt))
    IN IF offset + StructSize(fmt) > Len(io.data)
       THEN [io |-> [io1 EXCEPT !.err = "struct.error"], out |-> <<>>]
       ELSE [io |-> io1,
             out |-> StructUnpack(fmt, Slice(io.data, offset, offset + StructSize(fmt)))]

\* DataClass.unpack_array_from, the iterator consumed; a count beyond the
\* length of data selects the rest of data, as the slice is clamped
unpack_array_from(io, fmt, offset) ==
    LET count == FromBytesLE(Slice(Slice(io.data, offset, offset + 4), 0, 4))
        body == IF count >= Len(io.data) THEN SliceFrom(io.data, offset + 4)
                ELSE Slice(io.data, offset + 4, offset + 4 + count * StructSize(fmt))
        io1 == Logged(Logged(io, offset, offset + 4), offset + 4, offset + 4 + Len(body))
    IN IF Len(body) % StructSize(fmt) # 0
       THEN [io |-> [io1 EXCEPT !.err = "struct.error"], out |-> <<>>]
       ELSE [io |-> io1,
             out |-> [k \in 1 .. Len(body) \div StructSize(fmt) |->
                         StructUnpack(fmt, Slice(body, (k - 1) * StructSize(fmt),
                                                 k * StructSize(fmt)))]]

\* SdatIO.read_struct(struct, base, offset)
read_struct(io, fmt, base, offset) ==
    IF base = 0 \/ offset = 0 THEN [io |-> io, out |-> <<>>]
    ELSE unpack_from(io, fmt, offset + base)

\* SdatIO.read_array(struct, base, offset)
read_array(io, fmt, base, offset) ==
    IF base = 0 \/ offset = 0 THEN [io |-> io, out |-> <<>>]
    ELSE unpack_array_from(io, fmt, offset + base)

\* SdatIO.get_string(base, offset); find0 is bytearray.find(b'\0', pos), -1
\* when there is none, and ret is data[pos:end] for an end that may be -1
get_string(io, base, offset) ==
    IF base = 0 \/ offset = 0 THEN [io |-> io, out |-> <<>>]
    ELSE LET RECURSIVE find0(_)
             find0(k) == IF k >= Len(io.data) THEN -1
                         ELSE IF io.data[k + 1] = 0 THEN k ELSE find0(k + 1)
             pos == base + offset
             end == find0(pos)
             ret == Slice(io.data, pos, IF end < 0 THEN Len(io.data) + end ELSE end)
             io1 == Logged([io EXCEPT !.log = Append(@, [op |-> "find", lo |-> pos, hi |-> end])],
                           pos, IF end < 0 THEN Max(Len(io.data) + end, 0) ELSE end)
         IN IF \E k \in 1 .. Len(ret) : ret[k] >= 128
            THEN [io |-> [io1 EXCEPT !.err = "UnicodeDecodeError"], out |-> <<>>]
            ELSE [io |-> io1, out |-> ret]
\* NNSSndArcOffsetTable.read_all(sbcls, base, offset, sdat)
read_all(io, sbcls, base, offset) ==
    IF base = 0 \/ offset = 0 THEN [io |-> io, out |-> <<>>]
    ELSE LET arr == read_array(io, FmtOffsetTable, base, offset)
             \* the list comprehension over the offsets xs, from the k-th on
             RECURSIVE items(_, _, _)
             items(io1, xs, k) ==
                 IF io1.err # "" \/ k > Len(xs) THEN [io |-> io1, out |-> <<>>]
                 ELSE LET r == read_struct(io1, sbcls, base, xs[k][1])
                          rest == items(r.io, xs, k + 1)
                      IN [io |-> rest.io, out |-> <<r.out>> \o rest.out]
         IN items(arr.io, arr.out, 1)

\* NNSSndArcOffsetTable.read_arrays(sbcls, base, offset, sdat)
read_arrays(io, sbcls, base, offset) ==
    IF base = 0 \/ offset = 0 THEN [io |-> io, out |-> <<>>]
    ELSE LET arr == read_array(io, FmtOffsetTable, base, offset)
             \* the list comprehension over the offsets xs, from the k-th on
             RECURSIVE items(_, _, _)
             items(io1, xs, k) ==
                 IF io1.err # "" \/ k > Len(xs) THEN [io |-> io1, out |-> <<>>]
                 ELSE LET r == read_array(io1, sbcls, base, xs[k][1])
                          rest == items(r.io, xs, k + 1)
                      IN [io |-> rest.io, out |-> <<r.out>> \o rest.out]
         IN items(arr.io, arr.out, 1)

RECURSIVE read_strings_items(_, _, _, _)
read_strings_items(io, base, xs, k) ==
    IF io.err # "" \/ k > Len(xs) THEN [io |-> io, out |-> <<>>]
    ELSE LET r == get_string(io, base, xs[k][1])
             rest == read_strings_items(r.io, base, xs, k + 1)
         IN [io |-> rest.io, out |-> <<r.out>> \o rest.out]

\* a faulty read_strings: the table is decoded whatever base and offset are
read_strings_unguarded(io, base, offset) ==
    LET arr == unpack_array_from(io, FmtOffsetTable, offset + base)
    IN read_strings_items(arr.io, base, arr.out, 1)

\* NNSSndArcOffsetTable.read_strings(base, offset, sdat)
read_strings(io, base, offset) ==
    IF base = 0 \/ offset = 0 THEN [io |-> io, out |-> <<>>]
    ELSE LET arr == read_array(io, FmtOffsetTable, base, offset)
         IN read_strings_items(arr.io, base, arr.out, 1)

\* the generator inner() of read_seqarc_strings, consumed
RECURSIVE read_seqarc_items(_, _, _, _)
read_seqarc_items(io, offset, xs, k) ==
    IF io.err # "" \/ k > Len(xs) THEN [io |-> io, out |-> <<>>]
    ELSE LET symbol == get_string(io, offset, xs[k][1])
             table == IF symbol.io.err # "" THEN symbol
                      ELSE read_strings(symbol.io, offset, xs[k][2])
             rest == read_seqarc_items(table.io, offset, xs, k + 1)
         IN [io |-> rest.io, out |-> << <<symbol.out, table.out>> >> \o rest.out]

\* NNSSndArcSeqArcOffset.read_seqarc_strings(base, offset, sdat)
read_seqarc_strings(io, base, offset) ==
    IF base = 0 \/ offset = 0 THEN [io |-> io, out |-> <<>>]
    ELSE LET arr == read_array(io, FmtSeqArcOffset, base, offset)
         IN read_seqarc_items(arr.io, offset, arr.out, 1)
(***************************************************************************)
(* One call of a reader as a state machine: a block is chosen, with the    *)
(* base and the offset the header gives for a category, then read          *)
(***************************************************************************)
MaxCount == 3

RECURSIVE Words(_)
Words(ws) == IF ws = <<>> THEN <<>> ELSE ToBytesLE(Head(ws), 4) \o Words(Tail(ws))

\* a block: ten words, the table of the category among them, then the
\* strings "AB", "C", one that is not ASCII, and one without terminator
Block(c, o1, o2) ==
    Words(<<2, 20, 1, c, o1, o2, 1, 12, 0, 2>>) \o <<65, 66, 0, 67, 0, 200, 0, 68>>

EntryOffsets == {0, 16, 32, 35, 37, 39}

Readers == {"read_all", "read_arrays", "read_strings", "read_seqarc_strings"}

ReaderInit ==
    /\ rd \in {[pc |-> "call", reader |-> r, base |-> b, offset |-> o,
                data |-> Block(c, o1, o2), log |-> <<>>, out |-> <<>>, err |-> ""] :
               r \in Readers, b \in {0, 8}, o \in {0, 4, 8}, c \in 0 .. MaxCount,
               o1 \in EntryOffsets, o2 \in EntryOffsets}
    /\ SseqIdle
    /\ VarlenIdle
    /\ InfoIdle
    /\ CallIdle

SdatIO == [data |-> rd.data, log |-> rd.log, err |-> rd.err]

\* the call has returned r.out, or raised r.io.err
Returned(r) ==
    [rd EXCEPT !.pc = "done", !.log = r.io.log, !.err = r.io.err,
               !.out = IF r.io.err = "" THEN r.out ELSE <<>>]

ReadAll ==
    /\ rd.pc = "call"
    /\ rd.reader = "read_all"
    /\ rd' = Returned(read_all(SdatIO, FmtBankInfo, rd.base, rd.offset))
    /\ UNCHANGED notReader

ReadArrays ==
    /\ rd.pc = "call"
    /\ rd.reader = "read_arrays"
    /\ rd' = Returned(read_arrays(SdatIO, FmtGroupItem, rd.base, rd.offset))
    /\ UNCHANGED notReader

ReadStrings ==
    /\ rd.pc = "call"
    /\ rd.reader = "read_strings"
    /\ rd' = Returned(read_strings(SdatIO, rd.base, rd.offset))
    /\ UNCHANGED notReader

ReadSeqarcStrings ==
    /\ rd.pc = "call"
    /\ rd.reader = "read_seqarc_strings"
    /\ rd' = Returned(read_seqarc_strings(SdatIO, rd.base, rd.offset))
    /\ UNCHANGED notReader

ReaderNext == ReadAll \/ ReadArrays \/ ReadStrings \/ ReadSeqarcStrings

SpecRead == ReaderInit /\ [][ReaderNext]_vars

\* C10: a reader called with the offset 0 returns the empty list, raises
\* nothing and has read nothing from the buffer
C10_ZeroOffsetReadsNothing ==
    rd.pc = "done" /\ rd.offset = 0 =>
        /\ rd.out = <<>>
        /\ rd.log = <<>>
        /\ rd.err = ""

\* C10 witness: read_strings returned the empty list for the offset 0 of a
\* block at base 8 where a table with entries could be decoded, and read
\* nothing
C10_Witness ==
    /\ rd.pc = "done"
    /\ rd.reader = "read_strings"
    /\ rd.offset = 0
    /\ rd.base = 8
    /\ FromBytesLE(Slice(rd.data, 8, 12)) > 0
    /\ rd.out = <<>>
    /\ rd.log = <<>>

(***************************************************************************)
(* Properties of the cross-references set by the binding pass              *)
(***************************************************************************)
\* the name set_name leaves on the record i (0-based) of the field f
BoundName(f, k, i) ==
    LET symb == symbols[f][i + 1]
        given == IF k = SEQARC THEN symb[1] ELSE symb
    IN IF given # "" THEN given ELSE KindName[k + 1] \o "_" \o ZeroPad(DecString(i), 3)

\* C11: after a set_symbols whose every index is in range, every Sequence
\* record visited has bank referring to the Bank record at index bankNo and
\* player referring to the Player record at index playerNo (None where the
\* list holds None), and the name read through bank is the name binding gave
\* that bank, although the Sequence records are bound before the Bank
\* records are named
C11_SeqRefsResolved ==
    (bind.passed /\ RefsInRange) =>
        \A ki \in Visited :
            LET s == RecordAt(ki)
            IN s.kind = SEQ =>
                  /\ s.bank = IF info.bank[s.bankNo + 1].kind = -1 THEN <<>>
                              ELSE <<s.bankNo>>
                  /\ s.player = IF info.player[s.playerNo + 1].kind = -1 THEN <<>>
                                ELSE <<s.playerNo>>
                  /\ (s.bank # <<>> /\ s.bankNo < Len(symbols.bank) =>
                         info.bank[s.bank[1] + 1].name = BoundName("bank", BANK, s.bankNo))

(***************************************************************************)
(* Properties of dump_files                                                *)
(***************************************************************************)
\* every record of the info lists, visited by set_symbols or not
AllRecords ==
    {ki \in (1 .. Len(InfoFields)) \X (1 .. 4) :
        /\ ki[2] <= Len(info[InfoFields[ki[1]]])
        /\ info[InfoFields[ki[1]]][ki[2]].kind # -1}

\* the file slots some info record references as its fileId
ReferencedSlots ==
    {SlotOf(ki) : ki \in {a \in AllRecords :
                             RecordAt(a).kind \in {SEQ, SEQARC, BANK, WAVARC, STRM}}}

\* write_binary has written the file of the descriptor i under the name
WrittenAs(i, name) ==
    /\ i < outdir.bin.len
    /\ name = IF i \in DOMAIN outdir.bin.at THEN outdir.bin.at[i].name ELSE UnknownName(i)

\* C12: once dump_files has returned after a binding pass, every slot of the
\* file allocation table that no info record references has been written
\* under the name Files/Unknown/UNK_<slot, 5 digits>.bin, also a slot above
\* every slot that is referenced
C12_UnclaimedSlotsDumped ==
    (bind.passed /\ bind.runs = 0 /\ outdir.done /\ outdir.err = "") =>
        \A i \in 0 .. files.len - 1 :
            i \notin ReferencedSlots => WrittenAs(i, UnknownName(i))

\* C13: a file descriptor is filled once. A step of the program leaves every
\* descriptor that has a name as it is (name, kind and contents); after
\* set_symbols the descriptor of every record carrying a fileId that the pass
\* got to has a path, the category of the first record that references the
\* slot and the file of that slot, and the record's filename is that path;
\* two records referencing one slot raise nothing
C13_FilledOnce ==
    /\ [][\A id \in 0 .. file_descriptions.len - 1 :
              Descriptor(id).name # <<>> => Descriptor(id)' = Descriptor(id)]_vars
    /\ [](bind.passed =>
             /\ \A ki \in Reached :
                   SlotOf(ki) < files.len =>
                      /\ Descriptor(SlotOf(ki)).name # <<>>
                      /\ Descriptor(SlotOf(ki)).kind =
                            RecordAt(FirstClaimant(SlotOf(ki))).kind
                      /\ Descriptor(SlotOf(ki)).contents = ListGet(files, SlotOf(ki))
                      /\ RecordAt(ki).filename = Descriptor(SlotOf(ki)).name
             /\ (RefsInRange => bind.err = ""))

\* C14: after a set_symbols that raised nothing every info record of every
\* category has a name, every record that carries a fileId has a filename,
\* and every Sequence has its bank and every group member its sequence; so a
\* symbol list shorter than its info list makes the pass fail
C14_EveryRecordBound ==
    (bind.passed /\ bind.err = "") =>
        \A ki \in AllRecords :
            /\ RecordAt(ki).name # ""
            /\ (HasFileId(RecordAt(ki)) => RecordAt(ki).filename # <<>>)
            /\ (RecordAt(ki).kind = SEQ => RecordAt(ki).bank # <<>>)
            /\ (RecordAt(ki).kind = GROUP =>
                   \A j \in 1 .. Len(RecordAt(ki).items) :
                       RecordAt(ki).items[j].seq # <<>>)

\* the records, visited by set_symbols or not, with a cross-reference index
\* that has no record in the list it indexes
DanglingIndices ==
    {ki \in AllRecords :
        LET r == RecordAt(ki)
        IN \/ (r.kind = SEQ /\ (r.bankNo >= Len(info.bank) \/ r.playerNo >= Len(info.player)))
           \/ (r.kind = BANK /\
                  \E x \in {r.waveArcNo_0, r.waveArcNo_1, r.waveArcNo_2, r.waveArcNo_3} :
                      x # 65535 /\ x >= Len(info.waveArc))
           \/ (r.kind = GROUP /\
                  \E j \in 1 .. Len(r.items) : r.items[j].index >= Len(info.seq))}

\* C15: when a record has a bankNo, a playerNo, a waveArcNo other than
\* 0xFFFF or a group member's index with no record at that index,
\* set_symbols ends with an exception; and a reference that has been set is
\* the record at the index, whose index is in range
C15_OutOfRangeAborts ==
    bind.passed =>
        /\ (DanglingIndices # {} => bind.err # "")
        /\ \A ki \in AllRecords :
              LET r == RecordAt(ki)
              IN /\ (r.kind = SEQ /\ r.bank # <<>> =>
                        r.bankNo < Len(info.bank) /\ r.bank = <<r.bankNo>>)
                 /\ (r.kind = SEQ /\ r.player # <<>> =>
                        r.playerNo < Len(info.player) /\ r.player = <<r.playerNo>>)
                 /\ (r.kind = BANK /\ r.waveArc # <<>> =>
                        /\ Len(r.waveArc) = Len(waveArcNo(r))
                        /\ \A k \in 1 .. Len(r.waveArc) :
                              /\ waveArcNo(r)[k] < Len(info.waveArc)
                              /\ r.waveArc[k] = <<waveArcNo(r)[k]>>)
                 /\ (r.kind = GROUP =>
                        \A j \in 1 .. Len(r.items) :
                            r.items[j].seq # <<>> =>
                                /\ r.items[j].index < Len(info.seq)
                                /\ r.items[j].seq = <<r.items[j].index>>)

\* where set_symbols evaluates the subscript of an index with no record it
\* raises IndexError: right after a call, a pass that returned has left no record that it
\* visited with such an index, and a pass that raised another exception
\* has stopped at a record before the first such record
IndexErrorAtSubscript ==
    bind.runs >= 1 =>
        /\ (bind.err = "" => DanglingIndices \cap Visited = {})
        /\ (bind.err = "AttributeError" =>
              \E a \in FileRecords :
                  /\ Descriptor(SlotOf(a)).name = <<>>
                  /\ \A b \in DanglingIndices \cap Visited : a = b \/ Before(a, b))

(***************************************************************************)
(* named_struct.py: records packed again after unpacking                   *)
(***************************************************************************)
\* the record types: the widths of their fields, and whether __post_init__
\* replaces the first field by the SNDInstType member of that value
DataClass ==
    [NNSSndArcSeqInfo |-> [fmt |-> <<4, 2, 1, 1, 1, 1, 2>>, enum |-> FALSE],
     NNSSndArcBankInfo |-> [fmt |-> FmtBankInfo, enum |-> FALSE],
     NNSSndArcGroupItem |-> [fmt |-> FmtGroupItem, enum |-> FALSE],
     NNSSndArcOffsetTable |-> [fmt |-> FmtOffsetTable, enum |-> FALSE],
     SNDInstParam |-> [fmt |-> <<2, 2, 1, 1, 1, 1, 1, 1>>, enum |-> FALSE],
     SNDInstData |-> [fmt |-> <<1, 1, 2, 2, 1, 1, 1, 1, 1, 1>>, enum |-> TRUE]]

\* cls.unpack(x): the object, its fields as a tuple; members holds the
\* positions of the fields that are enum members, not integers
unpack(cls, x) ==
    IF Len(x) # StructSize(DataClass[cls].fmt)
    THEN [err |-> "struct.error", fields |-> <<>>, members |-> {}]
    ELSE LET fields == StructUnpack(DataClass[cls].fmt, x)
         IN IF ~DataClass[cls].enum
            THEN [err |-> "", fields |-> fields, members |-> {}]
            ELSE IF fields[1] \notin {0, 1, 2, 3, 4, 5, 16, 17}
            THEN [err |-> "ValueError", fields |-> <<>>, members |-> {}]
            ELSE [err |-> "", fields |-> fields, members |-> {1}]

\* obj.pack(): struct.pack of dataclasses.astuple(obj)
pack(cls, obj) ==
    LET fmt == DataClass[cls].fmt
        RECURSIVE struct_pack(_)
        struct_pack(k) ==
            IF k > Len(fmt) THEN <<>>
            ELSE ToBytesLE(obj.fields[k], fmt[k]) \o struct_pack(k + 1)
        \* the range of a field: 0 .. 2^(8 * width) - 1
        fits(v, width) == v >= 0 /\ (width >= 4 \/ v < Pow2(8 * width))
    IN IF obj.members # {} \/ \E k \in 1 .. Len(fmt) : ~fits(obj.fields[k], fmt[k])
       THEN [err |-> "struct.error", out |-> <<>>]
       ELSE [err |-> "", out |-> struct_pack(1)]

(***************************************************************************)
(* __main__.py: one call of main_unpack on an archive                      *)
(***************************************************************************)
SigSDAT == <<83, 68, 65, 84>>

\* an archive: the 64-byte header, a SYMB block at 64 (one sequence name,
\* "A"), an INFO block at 116 (one sequence record), a FAT block at 176 with
\* n entries and a file image of n files of 4 bytes; cut short when cut > 0
SdatFile(sig, bom, symb, fat, n, cut) ==
    LET whole ==
            sig \o ToBytesLE(bom, 2) \o ToBytesLE(256, 2) \o Words(<<188 + 20 * n>>)
                \o ToBytesLE(64, 2) \o ToBytesLE(4, 2)
                \o Words(<<symb, 52, 116, 60, fat, 12 + 16 * n, 188 + 16 * n, 4 * n>>)
                \o bytes_zero(16)
            \o <<83, 89, 77, 66>> \o Words(<<52, 40, 0, 0, 0, 0, 0, 0, 0, 1, 48>>)
                \o <<65, 0, 0, 0>>
            \o <<73, 78, 70, 79>> \o Words(<<60, 40, 0, 0, 0, 0, 0, 0, 0, 1, 48>>)
                \o Words(<<0>>) \o <<0, 0, 127, 64, 64, 0, 0, 0>>
            \o <<70, 65, 84, 32>> \o Words(<<12 + 16 * n, n>>)
                \o Words([k \in 1 .. 4 * n |-> IF k % 4 = 1 THEN 188 + 16 * n + k - 1
                                               ELSE IF k % 4 = 2 THEN 4 ELSE 0])
            \o [k \in 1 .. 4 * n |-> 85]
    IN IF cut = 0 THEN whole ELSE SubSeq(whole, 1, cut)

SdatFiles ==
    {SdatFile(sig, bom, symb, fat, n, cut) :
        sig \in {SigSDAT, <<83, 68, 65, 88>>, <<0, 0, 0, 0>>}, bom \in {65279, 65534},
        symb \in {0, 64}, fat \in {0, 176}, n \in {0, 1}, cut \in {0, 30, 100, 170}}

\* a byte region of the size of the type cls: the first byte b, the others
\* k * p mod 128, or 255 where that is not the top byte of a 32-bit field
Region(cls, b, p) ==
    [k \in 1 .. StructSize(DataClass[cls].fmt) |->
        IF k = 1 THEN b
        ELSE IF p = 255 THEN (IF k % 4 = 0 THEN 127 ELSE 255)
        ELSE (k * p) % 128]

MaxRecords == 2

\* a length-prefixed array: the count n, then m records
RecordArray(cls, n, m, b, p) ==
    LET RECURSIVE records(_)
        records(k) == IF k = 0 THEN <<>> ELSE records(k - 1) \o Region(cls, b, p + k)
    IN Words(<<n>>) \o records(m)

MaxCursor == 4

\* the buffers an integer is read from
ReadBuffers == {<<>>, <<1>>, <<1, 2>>, <<1, 255, 3>>, <<129, 2, 0, 4>>}

\* the record types SdatIO.read_array is asked for
ArrayClasses == {"NNSSndArcBankInfo", "NNSSndArcGroupItem", "NNSSndArcOffsetTable"}

\* a buffer with a length-prefixed array at position k: the count n, then m
\* records, the last cut bytes of the buffer missing
ArrayAt(cls, k, n, m, cut) ==
    Slice(bytes_zero(k) \o RecordArray(cls, n, m, 1, 1), 0,
          k + 4 + m * StructSize(DataClass[cls].fmt) - cut)

CallInit ==
    /\ call \in
          {[pc |-> "call", op |-> "main_unpack", data |-> d] : d \in SdatFiles}
          \cup {[pc |-> "call", op |-> "pack", cls |-> c, data |-> Region(c, b, p)] :
                    c \in DOMAIN DataClass, b \in {0, 1, 5, 6, 17, 100},
                    p \in {0, 1, 31, 255}}
          \cup {[pc |-> "call", op |-> "pack_array", cls |-> c,
                  data |-> RecordArray(c, n, m, b, 1)] :
                    c \in DOMAIN DataClass, n \in 0 .. MaxRecords + 1,
                    m \in 0 .. MaxRecords, b \in {0, 1, 6}}
          \cup {[pc |-> "call", op |-> "SdatIO", data |-> d, cursor |-> c, n |-> 0] :
                    d \in ReadBuffers, c \in 0 .. MaxCursor}
          \cup {[pc |-> "call", op |-> "read_integer", data |-> d, cursor |-> c,
                  size |-> n, signed |-> g] :
                    d \in ReadBuffers, c \in 0 .. MaxCursor, n \in {1, 2, 3},
                    g \in BOOLEAN}
          \cup {[pc |-> "call", op |-> "SdatIO", data |-> ArrayAt(c, k, n, m, cut),
                  cursor |-> k, n |-> 0] :
                    c \in ArrayClasses, k \in {0, MaxCursor}, n \in 0 .. MaxRecords + 1,
                    m \in 0 .. MaxRecords, cut \in {0, 1}}
    /\ SseqIdle
    /\ VarlenIdle
    /\ InfoIdle
    /\ ReaderIdle

\* Namespace.main_unpack: the statements that completed, in order, and the
\* exception that ended the call
MainUnpack ==
    /\ call.pc = "call"
    /\ call.op = "main_unpack"
    /\ LET sdat == [data |-> call.data, log |-> <<>>, err |-> ""]
           \* the fields' widths; signature and dummy ('4s', '16s') as words
           NNSSndArcHeader == <<4, 2, 2, 4, 2, 2, 4, 4, 4, 4, 4, 4, 4, 4, 4, 4, 4, 4>>
           NNSSndSymbolAndInfoOffsets == <<4, 4, 4, 4, 4, 4, 4, 4, 4, 4>>
           NNSSndArcFat == <<4, 4>>
           NNSSndArcFileInfo == <<4, 4, 4, 4>>
           InfoStructs == <<<<4, 2, 1, 1, 1, 1, 2>>, <<4>>, FmtBankInfo, <<4>>,
                            <<1, 1, 2, 4>>, FmtGroupItem, <<1, 1, 1>>, <<4, 1, 1, 1, 1>>>>
           raised(steps, header, e) ==
               [pc |-> "done", op |-> call.op, data |-> call.data, steps |-> steps,
                header |-> header, err |-> e]
           \* SymbolData.from_offsets, from the k-th table on
           RECURSIVE symbol_tables(_, _, _, _)
           symbol_tables(s, h, base, k) ==
               IF s.err # "" \/ k > 8 THEN s
               ELSE symbol_tables((IF k = 2 THEN read_seqarc_strings(s, base, h[k + 2])
                                   ELSE read_strings(s, base, h[k + 2])).io, h, base, k + 1)
           \* InfoData.from_offsets, from the k-th table on
           RECURSIVE info_tables(_, _, _, _)
           info_tables(s, h, base, k) ==
               IF s.err # "" \/ k > 8 THEN s
               ELSE info_tables((IF k = 6 THEN read_arrays(s, InfoStructs[k], base, h[k + 2])
                                 ELSE read_all(s, InfoStructs[k], base, h[k + 2])).io,
                                h, base, k + 1)
           \* infos.set_symbols(symb) lacks the argument files; to_dict and
           \* json.dump write Info.json; dump_files(files, folder) has an
           \* argument too many
           bind_and_dump(steps, h, symb) ==
               IF symb THEN raised(steps, h, "TypeError")
               ELSE raised(steps \o <<"Info.json">>, h, "TypeError")
           infos(steps, h, symb, s) ==
               IF s.err # "" THEN raised(steps, h, s.err)
               ELSE bind_and_dump(steps \o <<"infos">>, h, symb)
           info_header(steps, h, symb, r) ==
               IF r.io.err # "" THEN raised(steps, h, r.io.err)
               ELSE infos(steps \o <<"info_header">>, h, symb,
                          info_tables(sdat, r.out, h[9], 1))
           info_block(steps, h, symb) ==
               IF h[9] = 0 THEN raised(steps \o <<"info_header">>, h, "AttributeError")
               ELSE info_header(steps, h, symb,
                                unpack_from(sdat, NNSSndSymbolAndInfoOffsets, h[9]))
           \* x.read_file(header.fileImageOffset, self.SDAT) has an argument
           \* too many
           fat_entries(steps, h, symb, r) ==
               IF r.io.err # "" THEN raised(steps, h, r.io.err)
               ELSE IF r.out # <<>> THEN raised(steps \o <<"fat_entries">>, h, "TypeError")
               ELSE info_block(steps \o <<"fat_entries", "files">>, h, symb)
           fat_header(steps, h, symb, r) ==
               IF r.io.err # "" THEN raised(steps, h, r.io.err)
               ELSE fat_entries(steps \o <<"fat_header">>, h, symb,
                                unpack_array_from(sdat, NNSSndArcFileInfo, h[11] + 8))
           fat_block(steps, h, symb) ==
               IF h[11] = 0 THEN raised(steps \o <<"fat_header">>, h, "AttributeError")
               ELSE fat_header(steps, h, symb, unpack_from(sdat, NNSSndArcFat, h[11]))
           symbol_data(steps, h, s) ==
               IF s.err # "" THEN raised(steps, h, s.err)
               ELSE fat_block(steps \o <<"symbols">>, h, TRUE)
           symb_header(steps, h, r) ==
               IF r.io.err # "" THEN raised(steps, h, r.io.err)
               ELSE symbol_data(steps \o <<"symb_header">>, h,
                                symbol_tables(sdat, r.out, h[7], 1))
           symbol_block(steps, h) ==
               IF h[7] # 0
               THEN symb_header(steps, h, unpack_from(sdat, NNSSndSymbolAndInfoOffsets, h[7]))
               ELSE fat_block(steps, h, FALSE)
           header(steps, r) ==
               IF r.io.err # "" THEN raised(steps, <<>>, r.io.err)
               ELSE symbol_block(steps \o <<"header">>, r.out)
       IN call' = header(<<"makedirs">>, unpack_from(sdat, NNSSndArcHeader, 0))
    /\ UNCHANGED notCall

\* cls.unpack(x).pack()
UnpackPack ==
    /\ call.pc = "call"
    /\ call.op = "pack"
    /\ LET packed(obj) ==
               IF obj.err # "" THEN [err |-> obj.err, out |-> <<>>]
               ELSE pack(call.cls, obj)
           returned(r) ==
               [pc |-> "done", op |-> call.op, cls |-> call.cls, data |-> call.data,
                out |-> r.out, err |-> r.err]
       IN call' = returned(packed(unpack(call.cls, call.data)))
    /\ UNCHANGED notCall

\* cls.pack_array(list(cls.unpack_array(a)))
UnpackArrayPackArray ==
    /\ call.pc = "call"
    /\ call.op = "pack_array"
    /\ LET size == StructSize(DataClass[call.cls].fmt)
           \* cls.unpack_array(buffer), the iterator consumed
           body == Slice(call.data, 4, 4 + FromBytesLE(Slice(call.data, 0, 4)) * size)
           RECURSIVE iter_unpack(_)
           iter_unpack(k) ==
               IF k * size >= Len(body) THEN [err |-> "", objs |-> <<>>]
               ELSE LET obj == unpack(call.cls, Slice(body, k * size, (k + 1) * size))
                        join(rest) ==
                            IF rest.err # "" THEN rest
                            ELSE [err |-> "", objs |-> <<obj>> \o rest.objs]
                    IN IF obj.err # "" THEN [err |-> obj.err, objs |-> <<>>]
                       ELSE join(iter_unpack(k + 1))
           unpack_array ==
               IF Len(body) % size # 0 THEN [err |-> "struct.error", objs |-> <<>>]
               ELSE iter_unpack(0)
           \* cls.pack_array(array), from the k-th object on
           RECURSIVE pack_objs(_, _)
           pack_objs(objs, k) ==
               IF k > Len(objs) THEN [err |-> "", out |-> <<>>]
               ELSE LET one == pack(call.cls, objs[k])
                        join(rest) ==
                            IF rest.err # "" THEN rest
                            ELSE [err |-> "", out |-> one.out \o rest.out]
                    IN IF one.err # "" THEN one ELSE join(pack_objs(objs, k + 1))
           pack_array(r) ==
               IF r.err # "" THEN [err |-> r.err, out |-> <<>>]
               ELSE LET prefixed(p) ==
                            IF p.err # "" THEN p
                            ELSE [err |-> "", out |-> ToBytesLE(Len(r.objs), 4) \o p.out]
                    IN prefixed(pack_objs(r.objs, 1))
           returned(r) ==
               [pc |-> "done", op |-> call.op, cls |-> call.cls, data |-> call.data,
                out |-> r.out, err |-> r.err]
       IN call' = returned(pack_array(unpack_array))
    /\ UNCHANGED notCall

\* SseqToTxtConverter.read_integer(nbytes, signed=signed)
ReadInteger ==
    /\ call.pc = "call"
    /\ call.op = "read_integer"
    /\ LET returned(r) ==
               [pc |-> "done", op |-> call.op, data |-> call.data, size |-> call.size,
                signed |-> call.signed, at |-> call.cursor, cursor |-> r.cur,
                out |-> <<r.x>>, err |-> ""]
       IN call' = returned(read_integer(call.data, call.cursor, call.size, call.signed))
    /\ UNCHANGED notCall

(***************************************************************************)
(* sdat_io.py: an SdatIO object as a state machine.  call.data and         *)
(* call.cursor are its data and its cursor; its methods are called in any  *)
(* order, call.n counts the calls.  After a call, call.op is the method,   *)
(* call.out what it returned (None is <<>>), call.err the exception it     *)
(* raised; an argument of -1 stands for None where the method has None as  *)
(* a default.                                                              *)
(***************************************************************************)
MaxCalls == 2

\* there is an SdatIO object, and it may be called once more
SdatIOCallable ==
    /\ call.pc \in {"call", "done"}
    /\ call.op \in {"SdatIO", "read", "write", "align", "seek", "read_struct", "read_array",
                   "write_struct", "write_array"}
    /\ call.n < MaxCalls

\* instances of the record types, their fields within the range of the format
StructArgs ==
    {[cls |-> "NNSSndArcOffsetTable", fields |-> <<5>>],
     [cls |-> "NNSSndArcOffsetTable", fields |-> <<6>>],
     [cls |-> "NNSSndArcGroupItem", fields |-> <<1, 0, 258, 2>>]}

\* lists of instances of one record type
ArrayArgs ==
    {<<>>} \cup {<<x>> : x \in StructArgs}
    \cup {<<[cls |-> "NNSSndArcOffsetTable", fields |-> <<5>>],
            [cls |-> "NNSSndArcOffsetTable", fields |-> <<6>>]>>}

\* SdatIO.read(size, pos), and read_long, read_short and read_byte, which
\* call it with the sizes 4, 2 and 1
Read ==
    /\ SdatIOCallable
    /\ \E size \in {1, 2, 4}, p \in -1 .. MaxCursor :
          LET pos == IF p = -1 THEN call.cursor ELSE p
              cursor == IF p = -1 THEN call.cursor + size ELSE call.cursor
          IN call' = [pc |-> "done", op |-> "read", n |-> call.n + 1, data |-> call.data,
                      size |-> size, pos |-> p, at |-> pos, cursor |-> cursor,
                      out |-> <<int_from_bytes(Slice(call.data, pos, pos + size), FALSE)>>,
                      err |-> ""]
    /\ UNCHANGED notCall

\* SdatIO.write(x, size=size, pos=pos), and append_long, append_short,
\* append_byte (pos None) and write_long, write_short, write_byte (pos
\* given), which call it with the sizes 4, 2 and 1
Write ==
    /\ SdatIOCallable
    /\ \E x \in {-1, 7, 258}, size \in {1, 2, 4}, p \in {-1, 0, MaxCursor} :
          LET returned(data, cursor, e) ==
                  [pc |-> "done", op |-> "write", n |-> call.n + 1, data |-> data,
                   x |-> x, size |-> size, pos |-> p, cursor |-> cursor, out |-> <<>>,
                   err |-> e]
              val == ToBytesLE(x, size)
              \* x.to_bytes(size, 'little') raises OverflowError outside
              \* 0 .. 2^(8 * size) - 1
              fits == x >= 0 /\ (size >= 4 \/ x < Pow2(8 * size))
          IN call' = IF ~fits
                     THEN returned(call.data, call.cursor, "OverflowError")
                     ELSE IF p = -1
                     THEN returned(call.data \o val, Len(call.data) + size, "")
                     ELSE returned(SliceAssign(call.data, p, size, val), call.cursor, "")
    /\ UNCHANGED notCall

\* SdatIO.align(alignment, out=out)
Align ==
    /\ SdatIOCallable
    /\ \E alignment \in 1 .. 4, out \in BOOLEAN :
          LET RECURSIVE and(_, _)
              \* a & b
              and(a, b) == IF a = 0 \/ b = 0 THEN 0
                           ELSE (a % 2) * (b % 2) + 2 * and(a \div 2, b \div 2)
              mask == alignment - 1
              \* (self.cursor + mask) & ~mask
              new == (call.cursor + mask) - and(call.cursor + mask, mask)
              returned(data, cursor, e) ==
                  [pc |-> "done", op |-> "align", n |-> call.n + 1, data |-> data,
                   alignment |-> alignment, pad |-> out, cursor |-> cursor,
                   out |-> <<>>, err |-> e]
          IN call' = IF and(alignment, mask) # 0
                     THEN returned(call.data, call.cursor, "AssertionError")
                     ELSE IF new > call.cursor
                     THEN returned(IF out THEN call.data \o bytes_zero(new - call.cursor)
                                   ELSE call.data, new, "")
                     ELSE returned(call.data, call.cursor, "")
    /\ UNCHANGED notCall

\* SdatIO.seek(pos, whence); os.SEEK_SET, os.SEEK_CUR and os.SEEK_END are
\* 0, 1 and 2
Seek ==
    /\ SdatIOCallable
    /\ \E p \in {-1, 0, 1, 2 * MaxCursor + 1}, whence \in 0 .. 3 :
          LET returned(cursor, e) ==
                  [pc |-> "done", op |-> "seek", n |-> call.n + 1, data |-> call.data,
                   pos |-> p, whence |-> whence, cursor |-> cursor, out |-> <<>>,
                   err |-> e]
              new == IF whence = 0 THEN p
                     ELSE IF whence = 1 THEN call.cursor + p
                     ELSE Len(call.data) - p
          IN call' = IF whence \notin {0, 1, 2} THEN returned(call.cursor, "ValueError")
                     ELSE returned(Min(Max(new, 0), Len(call.data)), "")
    /\ UNCHANGED notCall

\* SdatIO.read_struct(struct, base, offset): None when base or offset is 0,
\* the record at base + offset, or the record at the cursor (or at offset)
\* when one of them is None; the cursor moves when offset is None
ReadStruct ==
    /\ SdatIOCallable
    /\ \E cls \in ArrayClasses, base \in {-1, 0, MaxCursor}, offset \in {-1, 0, MaxCursor} :
          LET size == StructSize(DataClass[cls].fmt)
              off == IF base # -1 /\ offset # -1 THEN offset + base ELSE offset
              at == IF off # -1 THEN off ELSE call.cursor
              returned(cursor, out, e) ==
                  [pc |-> "done", op |-> "read_struct", n |-> call.n + 1,
                   data |-> call.data, cls |-> cls, base |-> base, offset |-> offset,
                   cursor |-> cursor, out |-> out, err |-> e]
              unpacked(r) ==
                  IF r.io.err # "" THEN returned(call.cursor, <<>>, r.io.err)
                  ELSE returned(IF off = -1 THEN call.cursor + size ELSE call.cursor,
                                r.out, "")
          IN call' = IF base = 0 \/ offset = 0 THEN returned(call.cursor, <<>>, "")
                     ELSE unpacked(unpack_from([data |-> call.data, log |-> <<>>, err |-> ""],
                                               DataClass[cls].fmt, at))
    /\ UNCHANGED notCall

\* SdatIO.read_array(struct) with base=None and offset=None: the array at
\* the cursor, and the cursor moved past the records returned
ReadArray ==
    /\ SdatIOCallable
    /\ \E cls \in ArrayClasses :
          LET size == StructSize(DataClass[cls].fmt)
              returned(r) ==
                  [pc |-> "done", op |-> "read_array", n |-> call.n + 1, cls |-> cls,
                   data |-> call.data, at |-> call.cursor,
                   cursor |-> IF r.io.err = "" THEN call.cursor + 4 + Len(r.out) * size
                              ELSE call.cursor,
                   out |-> r.out, err |-> r.io.err]
          IN call' = returned(unpack_array_from([data |-> call.data, log |-> <<>>, err |-> ""],
                                                DataClass[cls].fmt, call.cursor))
    /\ UNCHANGED notCall

\* SdatIO.write_struct(obj, offset): obj.pack() appended and the cursor at
\* the end, or obj.pack_into(self.data, offset), which needs the whole
\* record to lie within the data
WriteStruct ==
    /\ SdatIOCallable
    /\ \E obj \in StructArgs, offset \in {-1, 0, MaxCursor} :
          LET size == StructSize(DataClass[obj.cls].fmt)
              packed == pack(obj.cls, [err |-> "", fields |-> obj.fields, members |-> {}])
              returned(data, cursor, e) ==
                  [pc |-> "done", op |-> "write_struct", n |-> call.n + 1, data |-> data,
                   obj |-> obj, offset |-> offset, cursor |-> cursor, out |-> <<>>,
                   err |-> e]
          IN call' = IF offset = -1
                     THEN returned(call.data \o packed.out, Len(call.data) + size, "")
                     ELSE IF offset + size > Len(call.data)
                     THEN returned(call.data, call.cursor, "struct.error")
                     ELSE returned(SliceAssign(call.data, offset, size, packed.out),
                                   call.cursor, "")
    /\ UNCHANGED notCall

\* SdatIO.write_array(objs, offset): an empty list writes the word 0 with
\* write_long; else cls.pack_array(objs) appended and the cursor at the
\* end, or cls.pack_array_into(self.data, offset, objs), which assigns the
\* count to data[offset:offset + 4] and packs the objects one by one, each
\* needing to lie within the data
WriteArray ==
    /\ SdatIOCallable
    /\ \E objs \in ArrayArgs, offset \in {-1, 0, MaxCursor} :
          LET returned(data, cursor, e) ==
                  [pc |-> "done", op |-> "write_array", n |-> call.n + 1, data |-> data,
                   objs |-> objs, offset |-> offset, cursor |-> cursor, out |-> <<>>,
                   err |-> e]
              bytes_of(x) ==
                  pack(x.cls, [err |-> "", fields |-> x.fields, members |-> {}]).out
              RECURSIVE pack_array(_)
              \* the objects from the k-th on, packed
              pack_array(k) == IF k > Len(objs) THEN <<>>
                               ELSE bytes_of(objs[k]) \o pack_array(k + 1)
              RECURSIVE pack_array_into(_, _)
              \* the loop of pack_array_into from the object i (0-based) on
              pack_array_into(buf, i) ==
                  IF i >= Len(objs) THEN returned(buf, call.cursor, "")
                  ELSE LET size == StructSize(DataClass[objs[i + 1].cls].fmt)
                           at == offset + 4 + size * i
                       IN IF at + size > Len(buf)
                          THEN returned(buf, call.cursor, "struct.error")
                          ELSE pack_array_into(
                                   SliceAssign(buf, at, size, bytes_of(objs[i + 1])), i + 1)
              count == ToBytesLE(Len(objs), 4)
          IN call' = IF offset = 0 THEN returned(call.data, call.cursor, "AssertionError")
                     ELSE IF offset = -1
                     THEN returned(call.data \o count \o pack_array(1),
                                   Len(call.data) + 4 + Len(pack_array(1)), "")
                     ELSE IF objs = <<>>
                     THEN returned(SliceAssign(call.data, offset, 4, count), call.cursor, "")
                     ELSE pack_array_into(SliceAssign(call.data, offset, 4, count), 0)
    /\ UNCHANGED notCall

CallNext ==
    \/ MainUnpack
    \/ UnpackPack
    \/ UnpackArrayPackArray
    \/ ReadInteger
    \/ Read
    \/ Write
    \/ Align
    \/ Seek
    \/ ReadStruct
    \/ ReadArray
    \/ WriteStruct
    \/ WriteArray

SpecCall == CallInit /\ [][CallNext]_vars

\* C16: when the signature of the header is not "SDAT" or its byte-order
\* marker is not 0xFEFF, main_unpack raises an exception and has by then
\* read no block header, decoded no block and written no file
C16_BadHeaderFailsFirst ==
    (/\ call.pc = "done"
     /\ call.op = "main_unpack"
     /\ Len(call.data) >= 8
     /\ (SubSeq(call.data, 1, 4) # SigSDAT \/ FromBytesLE(SubSeq(call.data, 5, 6)) # 65279))
    => /\ call.err # ""
       /\ \A k \in 1 .. Len(call.steps) : call.steps[k] \in {"makedirs", "header"}

\* C17: for every record type and every byte region x of the type's size,
\* pack(unpack(x)) returns x; and pack_array(unpack_array(a)) returns a for
\* every array a whose count is the number of whole records that follow it
C17_PackUnpackRoundTrip ==
    /\ (call.pc = "done" /\ call.op = "pack") => (call.err = "" /\ call.out = call.data)
    /\ (/\ call.pc = "done"
        /\ call.op = "pack_array"
        /\ Len(call.data) = 4 + FromBytesLE(SubSeq(call.data, 1, 4))
                                  * StructSize(DataClass[call.cls].fmt))
       => (call.err = "" /\ call.out = call.data)

\* C18: SdatIO.read and read_integer asked for an integer whose bytes lie
\* partly or wholly beyond the end of the buffer raise an exception and
\* return no value
C18_ReadPastEndFaults ==
    (/\ call.pc = "done"
     /\ call.op \in {"read", "read_integer"}
     /\ call.at + call.size > Len(call.data))
    => (call.err # "" /\ call.out = <<>>)

\* C19: once parse() has scanned a stream and rendered its listing, the
\* address every Pointer, Jump or Call statement references is the address
\* of a scanned statement, so its label has a declaration line; a stream
\* with another branch target does not get as far as a listing
C19_BranchTargetsAreStatements ==
    pc \in {"compile", "asm_error", "done", "checked"} =>
        \A i \in 1 .. Len(dis.commands) :
            IsBranch(dis.commands[i]) =>
                LET c == dis.commands[i]
                    target == IF c.cmdstr.id = CmdPointer THEN c.params[2] ELSE c.params[1]
                IN /\ target \in DOMAIN dis.labels
                   /\ \E j \in 1 .. Len(dis.commands) :
                         dis.commands[j].addr - dis.header.baseOffset = target

\* C20: for every statement the scan pass has decoded, the opcode get_command
\* returned at its address is none of the prefix bytes 0xA0, 0xA1 and 0xA2,
\* and the bytes it consumed before the opcode hold at most one value-type
\* override (0xA0 for RAN, 0xA1 for VAR)
C20_PrefixesAreNeverOpcodes ==
    \A i \in 1 .. Len(dis.commands) :
        LET c == dis.commands[i]
            decoded(g) ==
                /\ g.cmd \notin {160, 161, 162}
                /\ Cardinality({k \in c.addr + 1 .. g.cur - 1 :
                                   dis.view[k] \in {160, 161}}) <= 1
        IN decoded(get_command(dis.view, c.addr))

(***************************************************************************)
(* sseq.py: TxtToSseqConverter.compile on a listing written by hand        *)
(***************************************************************************)
\* longest listing of the hand-written family
MaxLines == 4

\* the lines the hand-written listings are made of: two label
\* declarations, a Pointer for track 0, for track 1 and for track 2, a
\* Jump, TrackEnd, and a mnemonic that names no command
AsmLines ==
    LET L1 == <<"L", "1">>
        L2 == <<"L", "2">>
        Pointer(trackno, label) ==
            <<"\t", "P", "o", "i", "n", "t", "e", "r", " ">> \o StrNat(trackno)
            \o CommaSpace \o label
    IN {L1 \o <<":">>,
        L2 \o <<":">>,
        Pointer(0, L1),
        Pointer(1, L2),
        Pointer(2, L1),
        <<"\t", "J", "u", "m", "p", " ">> \o L2,
        <<"\t", "T", "r", "a", "c", "k", "E", "n", "d">>,
        <<"\t", "F", "o", "o", " ", "1">>}

AsmTexts == SeqsUpTo(AsmLines, MaxLines)

\* TxtToSseqConverter() and a listing to compile
AsmInit ==
    /\ pc = "compile"
    /\ buffer = <<>>
    /\ dis = NoConverter
    /\ text \in AsmTexts
    /\ asm = TxtToSseqConverter_init
    /\ lineno = 0
    /\ result = <<>>
    /\ text2 = [ok |-> FALSE, lines |-> <<>>]
    /\ gen = NoGenerator
    /\ VarlenIdle
    /\ InfoIdle
    /\ ReaderIdle
    /\ CallIdle

AsmNext == CompileLine \/ CompileFinish \/ Reparse

SpecAsm == AsmInit /\ [][AsmNext]_vars

\* the step compiles a line and puts three zero bytes in front of
\* everything compiled before it
InsertionStep ==
    /\ pc = "compile"
    /\ lineno' = lineno + 1
    /\ Len(asm'.compiled) >= Len(asm.compiled) + 3
    /\ SubSeq(asm'.compiled, 1, Len(asm.compiled) + 3) = bytes_zero(3) \o asm.compiled

\* the buffer begins with the three bytes of an earlier insertion
FrontInserted ==
    Len(asm.compiled) >= 3 /\ SubSeq(asm.compiled, 1, 3) = bytes_zero(3)

\* C21: a step of the assembly that inserts the three bytes at the front of
\* the buffer is never taken from a state whose buffer already begins with
\* three inserted bytes, so the insertion happens at most once per assembly
C21_InsertedAtMostOnce == [][InsertionStep => ~FrontInserted]_vars

\* the track indices of the Pointer statements among the first n lines
DeclaredTracks(n) ==
    LET pointer(m) == m.ok /\ m.command = <<"P", "o", "i", "n", "t", "e", "r">>
        trackno(m) == int(CMD_ARGS(m.args, 1)[1]).x
    IN {trackno(CMD_PAT(text[i])) : i \in {j \in 1 .. n : pointer(CMD_PAT(text[j]))}}

\* C22: while the lines are compiled the buffer begins with three inserted
\* bytes exactly if a Pointer statement for a track other than track 0 has
\* been compiled; the stream compile returns begins with 0xFE and the mask
\* of track 0 and every declared track if there is such a statement, and
\* with no inserted bytes if there is none
C22_InsertedForSecondTrack ==
    /\ (pc = "compile" => (FrontInserted <=> DeclaredTracks(lineno) \ {0} # {}))
    /\ (pc = "done" =>
          IF DeclaredTracks(Len(text)) \ {0} # {}
          THEN SubSeq(asm.compiled, 1, 3)
               = <<254>> \o ToBytesLE(MaskValue(DeclaredTracks(Len(text)) \cup {0}), 2)
          ELSE ~FrontInserted)

\* the line is a statement with the given mnemonic
IsStatement(line, mnemonics) == CMD_PAT(line).ok /\ CMD_PAT(line).command \in mnemonics

PointerName == <<"P", "o", "i", "n", "t", "e", "r">>

BranchNames == {PointerName, <<"J", "u", "m", "p">>, <<"C", "a", "l", "l">>}

\* the bytes the statements of the first n lines of the listing take: 5 for
\* a Pointer, 4 for a Jump or Call, 1 for TrackEnd, none for a declaration
RECURSIVE StatementBytes(_)
StatementBytes(n) ==
    IF n = 0 THEN 0
    ELSE StatementBytes(n - 1)
         + (IF IsStatement(text[n], {PointerName}) THEN 5
            ELSE IF IsStatement(text[n], BranchNames) THEN 4
            ELSE IF CMD_PAT(text[n]).ok THEN 1
            ELSE 0)

\* the stream of the file compile returned
ResultStream == SubSeq(result, HeaderSize + 1, Len(result))

\* the offset of the first statement in the returned stream: past the
\* tracks-used opcode and past the zero bytes in front of the statements
FirstStatementOffset ==
    LET s == ResultStream
        from == IF s # <<>> /\ s[1] = 254 THEN 3 ELSE 0
    IN from + RunLen(s, from + 1, {0})

\* C23: in the file compile returned, the three bytes after the opcode of a
\* Jump or Call, and after the track index of a Pointer, hold the offset in
\* the stream of the statement that follows the declaration of the label
\* the line names, little-endian; the declaration may come after the line,
\* and both may come before the line that makes the assembler insert the
\* tracks-used header
C23_BranchesPatched ==
    pc = "done" =>
        \A i \in 1 .. Len(text) :
            IsStatement(text[i], BranchNames) =>
                LET args == CMD_ARGS(CMD_PAT(text[i]).args, 1)
                    label == args[Len(args)]
                    operand == FirstStatementOffset + StatementBytes(i - 1)
                               + (IF IsStatement(text[i], {PointerName}) THEN 2 ELSE 1)
                    declared == {j \in 1 .. Len(text) : text[j] = label \o <<":">>}
                IN /\ declared # {}
                   /\ \E j \in declared :
                         /\ \A k \in declared : k <= j
                         /\ FromBytesLE(SubSeq(ResultStream, operand + 1, operand + 3))
                            = FirstStatementOffset + StatementBytes(j)

\* C23 witness: a Jump compiled before the insertion, to a label declared
\* after it, and a Pointer to the same label
C23_Witness ==
    /\ pc = "done"
    /\ Len(text) = 4
    /\ IsStatement(text[1], {<<"J", "u", "m", "p">>})
    /\ IsStatement(text[2], {PointerName})
    /\ text[3] = <<"L", "2", ":">>
    /\ CMD_PAT(text[4]).ok
    /\ ResultStream = <<254, 3, 0, 148, 12, 0, 0, 147, 1, 12, 0, 0, 255, 0, 0, 0>>

\* the line of the rendered listing that spells the statement
StatementLine(c) ==
    LET lines == format_command(dis, c)
    IN format(lines[CHOOSE k \in 1 .. Len(lines) : HasAt(lines[k], 1, <<"\t">>)], SEQNAME)

\* the statement has a flexible-width argument: a note's duration, or the
\* value argument of a command
HasFlexibleArgument(c) == c.cmdstr.tag = "note" \/ c.validx # -1

\* C24: in the listing parse() rendered, the line of every statement with a
\* flexible-width argument that was decoded with the RAN override spells
\* the argument as RAN(...), with the VAR override as VAR(...), and without
\* an override with no tag; notes and commands alike
C24_OverrideIsTagged ==
    pc = "compile" =>
        \A i \in 1 .. Len(dis.commands) :
            HasFlexibleArgument(dis.commands[i]) =>
                LET c == dis.commands[i]
                    line == StatementLine(c)
                    has(lit) == \E p \in 1 .. Len(line) : HasAt(line, p, lit)
                IN /\ \E k \in 1 .. Len(text) : text[k] = line
                   /\ (c.valueType = "RAN" => has(<<"R", "A", "N", "(">>))
                   /\ (c.valueType = "VAR" => has(<<"V", "A", "R", "(">>))
                   /\ (c.valueType = "NOINIT" => ~has(<<"(">>))

\* C25: read_array at the cursor, on a buffer whose 32-bit count at the
\* cursor is N, returns N records and leaves the cursor 4 + N * record size
\* further if the buffer holds N whole records after the count, and fails
\* if it holds fewer
C25_ArrayOfNRecords ==
    call.pc = "done" /\ call.op = "read_array" =>
        LET size == StructSize(DataClass[call.cls].fmt)
            N == FromBytesLE(Slice(call.data, call.at, call.at + 4))
        IN IF N <= Len(call.data) /\ Len(call.data) >= call.at + 4 + N * size
           THEN /\ call.err = ""
                /\ Len(call.out) = N
                /\ call.cursor = call.at + 4 + N * size
           ELSE call.err # ""

\* the first statement of the stream is an unknown command without a prefix
UnknownFirst ==
    /\ dis.commands # <<>>
    /\ dis.commands[1].addr = HeaderSize
    /\ dis.commands[1].cmdstr.tag = "none"
    /\ dis.commands[1].params[1] \in UnknownOpcodes
    /\ ~dis.commands[1].conditional
    /\ dis.commands[1].valueType = "NOINIT"

\* C26: the scan does not fail on a statement with an unknown opcode; the
\* line of such a statement is SeqUnkCmd_x and the opcode in two uppercase
\* hex digits, followed by the decoded arguments; the assembler given the
\* line emits the bytes the statement has in the stream
C26_UnknownPreserved ==
    /\ (pc = "dis_error" /\ dis.cursor >= HeaderSize =>
          get_command(dis.view, dis.cursor).cmd \notin UnknownOpcodes)
    /\ (pc \in {"compile", "asm_error"} /\ lineno = 2 /\ UnknownFirst =>
          LET c == dis.commands[1]
              rest == Tail(c.params)
              end == IF Len(dis.commands) >= 2 THEN dis.commands[2].addr ELSE dis.cursor
          IN /\ text[2] = <<"\t">> \o UnkPrefix \o ZFill(HexNat(c.params[1]), 2)
                          \o (IF rest = <<>> THEN <<>>
                              ELSE <<" ">> \o Join(StrAll(rest), CommaSpace))
             /\ asm.err = ""
             /\ asm.compiled = Slice(dis.view, c.addr, end))

\* among the first n lines there is a Pointer, Jump or Call whose label no
\* line of the listing declares
UndeclaredLabel(n) ==
    \E i \in 1 .. n :
        /\ IsStatement(text[i], BranchNames)
        /\ LET args == CMD_ARGS(CMD_PAT(text[i]).args, 1)
           IN \A j \in 1 .. Len(text) : text[j] # args[Len(args)] \o <<":">>

\* among the first n lines there is a statement whose mnemonic is neither
\* the name of a command nor an unknown-command spelling
UnknownMnemonic(n) ==
    \E i \in 1 .. n :
        /\ ~LABEL_PAT(text[i]).ok
        /\ ~NOTE_PAT(text[i]).ok
        /\ CMD_PAT(text[i]).ok
        /\ CommandValue(CMD_PAT(text[i]).command) = -1
        /\ ~UNK_COMMAND(CMD_PAT(text[i]).command).ok

\* C27: compile returns a binary only for a listing in which every label a
\* Pointer, Jump or Call names is declared and every mnemonic is known; a
\* missing label makes it fail in the relocation pass, after the last
\* line, an unknown mnemonic at its line, and a failed compile returns
\* nothing
C27_MissingLabelAborts ==
    /\ (pc \in {"done", "checked"} =>
          ~UndeclaredLabel(Len(text)) /\ ~UnknownMnemonic(Len(text)))
    /\ (pc = "compile" => ~UnknownMnemonic(lineno))
    /\ (pc = "asm_error" => result = <<>>)
    /\ (pc = "asm_error" /\ asm.err = "KeyError" =>
          lineno = Len(text) /\ UndeclaredLabel(Len(text)))

\* C27 witness: compile failed in the relocation pass on a Jump to a label
\* that is declared nowhere, its three bytes still zero
C27_Witness ==
    /\ pc = "asm_error"
    /\ asm.err = "KeyError"
    /\ lineno = Len(text)
    /\ UndeclaredLabel(Len(text))
    /\ ~UnknownMnemonic(Len(text))
    /\ asm.compiled = <<148, 0, 0, 0, 255>>
    /\ result = <<>>

\* the first statement of the stream is a note without a prefix
NoteFirst ==
    /\ dis.commands # <<>>
    /\ dis.commands[1].addr = HeaderSize
    /\ dis.commands[1].cmdstr.tag = "note"
    /\ ~dis.commands[1].conditional
    /\ dis.commands[1].valueType = "NOINIT"

\* C28: a note byte n with velocity v and duration d is rendered as the
\* name of n mod 12, the octave n div 12, v and d, and the assembler given
\* that line emits n, v and the variable-length encoding of d
C28_NoteRoundTrip ==
    pc \in {"compile", "asm_error"} /\ lineno = 2 /\ NoteFirst =>
        LET n == read_8bit(dis.view, HeaderSize).x
            v == dis.commands[1].params[1]
            d == dis.commands[1].params[2]
            RECURSIVE leading(_)
            leading(x) == IF x = 0 THEN <<>> ELSE leading(x \div 128) \o <<128 + (x % 128)>>
        IN /\ text[2] = <<"\t">> \o note_names[(n % 12) + 1] \o StrNat(n \div 12)
                        \o CommaSpace \o StrNat(v) \o CommaSpace \o StrNat(d)
           /\ asm.err = ""
           /\ asm.compiled = <<n, v>> \o leading(d \div 128) \o <<d % 128>>

\* the file compile returned: a header of 28 bytes whose fields describe
\* the file, then a stream whose length is a multiple of 4, and the
\* disassembler constructed on it stands at the first stream byte, or past
\* the tracks-used opcode that is there
ResultWellFormed ==
    LET h == UnpackHeader(result)
        converter == SseqToTxtConverter_init(result)
    IN /\ Len(result) >= HeaderSize
       /\ Len(ResultStream) % 4 = 0
       /\ h.ok
       /\ h.header.fileSize = Len(result)
       /\ h.header.size_ = 12 + Len(ResultStream)
       /\ h.header.headerSize = 16
       /\ h.header.dataBlocks = 1
       /\ h.header.baseOffset = HeaderSize
       /\ converter.ok
       /\ converter.obj.cursor
          = HeaderSize + (IF ResultStream # <<>> /\ ResultStream[1] = 254 THEN 3 ELSE 0)

\* the step returns the compiled buffer with fewer than four zero bytes
\* after it; only the tracks-used mask at the front and the addresses of
\* the relocations were written in it
ReturnsPaddedStream ==
    pc = "compile" /\ pc' = "done" =>
        LET n == Len(asm.compiled)
            stream == SubSeq(result', HeaderSize + 1, Len(result'))
            patched(k) ==
                \/ k <= 3
                \/ \E i \in DOMAIN asm.relocs : k - 1 \in asm.relocs[i].addr .. asm.relocs[i].addr + 2
        IN /\ Len(stream) \in n .. n + 3
           /\ \A k \in 1 .. Len(stream) :
                 \/ k > n /\ stream[k] = 0
                 \/ k <= n /\ patched(k)
                 \/ k <= n /\ stream[k] = asm.compiled[k]

\* C29: compile returns the 28-byte header followed by the instruction
\* stream padded with zero bytes to a multiple of 4; fileSize is the length
\* of the result, the block size 12 plus the padded stream length,
\* headerSize 0x0010, the block count 1 and baseOffset the header length,
\* and the disassembler starts decoding the result at its first stream byte
C29_HeaderDescribesResult ==
    /\ [](pc \in {"done", "checked"} => ResultWellFormed)
    /\ [][ReturnsPaddedStream]_vars

\* C29 witness: a stream of five bytes was returned with three bytes of
\* padding, in a file of 36 bytes
C29_Witness ==
    /\ pc = "done"
    /\ Len(result) = 36
    /\ ResultStream = <<148, 0, 0, 0, 255, 0, 0, 0>>
    /\ SubSeq(result, 9, 12) = <<36, 0, 0, 0>>
    /\ SubSeq(result, 21, 28) = <<20, 0, 0, 0, 28, 0, 0, 0>>

(***************************************************************************)
(* sseq.py: the scan pass under fair scheduling.  The program is one       *)
(* thread: the for loop of scan_commands runs parse_track to its end,      *)
(* parse returns its generator and the caller takes its lines, so a scan   *)
(* step, the return of parse or a line that can be taken is taken.         *)
(***************************************************************************)
MaxScanLen == 3

MaxRun == 6

\* padding, a small value, a note, Delay with the two continuation bytes
\* 0x81 and 0xFF, Jump, the conditional prefix, TrackEnd
ScanAlphabet == {0, 3, 60, 128, 129, 148, 162, 255}

\* Delay, a note and the unknown opcode 0x82 followed by a run of
\* continuation bytes that reaches the end of the buffer
ContinuationStreams ==
    {h \o [i \in 1 .. k |-> b] : h \in {<<128>>, <<60, 100>>, <<130>>},
                                 k \in 1 .. MaxRun, b \in {128, 255}}

ScanStreams == SeqsUpTo(ScanAlphabet, MaxScanLen) \cup ContinuationStreams

ScanInit ==
    /\ pc = "start"
    /\ buffer \in {WrapStream(s) : s \in ScanStreams}
    /\ dis = NoConverter
    /\ text = <<>>
    /\ asm = TxtToSseqConverter_init
    /\ lineno = 0
    /\ result = <<>>
    /\ text2 = [ok |-> FALSE, lines |-> <<>>]
    /\ gen = NoGenerator
    /\ VarlenIdle
    /\ InfoIdle
    /\ ReaderIdle
    /\ CallIdle

\* weak fairness of the scan step, WF_vars(ScanStep), with
\* ENABLED <<ScanStep>>_vars written as the state predicate it equals, the
\* guard of the step: a scan step changes the cursor or the program counter
ScanStepFairness ==
    []<>~(pc = "scan" /\ dis.cursor < Len(dis.view)) \/ []<><<ScanStep>>_vars

\* one pass over one buffer: set_buffer is not called
ScanNext ==
    Construct \/ ScanStep \/ Parse \/ Render \/ CompileLine \/ CompileFinish \/ Reparse

SpecScan ==
    ScanInit /\ [][ScanNext]_vars /\ ScanStepFairness /\ WF_vars(Parse) /\ WF_vars(Render)

\* a statement was scanned, or the scan pass ended
ScanConsumes ==
    /\ pc = "scan" /\ pc' = "scan" => dis'.cursor > dis.cursor
    /\ pc = "scan" /\ pc' = "render" => dis.cursor >= Len(dis.view)

\* read_varlen from any offset of the trimmed buffer stops, at the latest
\* with the first read past the end
VarlenStops ==
    \A c \in 0 .. Len(dis.view) :
        read_varlen(dis.view, c).cur \in c + 1 .. Len(dis.view) + 1

\* C30: the scan pass terminates for every input buffer: every iteration of
\* parse_track moves the cursor forward, the pass ends with the cursor at
\* or past the end of the trimmed buffer or with an exception, and
\* read_varlen stops when a run of continuation bytes reaches the end of
\* the buffer
C30_ScanTerminates ==
    /\ (pc = "scan" ~> pc # "scan")
    /\ [][ScanConsumes]_vars
    /\ [](pc = "scan" => dis.view = rstrip0(buffer) /\ VarlenStops)

\* C30 witness: the scan pass ended after Delay read a run of two
\* continuation bytes and one byte past the end of the buffer
C30_Witness ==
    /\ pc = "compile"
    /\ lineno = 0
    /\ SubSeq(dis.view, HeaderSize + 1, Len(dis.view)) = <<128, 255, 255>>
    /\ dis.cursor = Len(dis.view) + 1
    /\ Len(dis.commands) = 1
    /\ dis.commands[1].params = <<2097024>>

====
